---- MODULE Spec2Model ----
(***************************************************************************)
(* Chunked map generation of chapter10/src/map/generate.rs.                *)
(*                                                                         *)
(* The background worker (generate_all_chunks) is modelled step by step:   *)
(* seeding a chunk from its neighbours, the oracle attempts of             *)
(* generate_chunk_with_fallback (full seed set, then the unpin radii),     *)
(* the insertion into the solved-grid store, the progress increment and    *)
(* the final conversion into the result list.                              *)
(*                                                                         *)
(* The constraint solver is an external collaborator.  An attempt either   *)
(* fails or returns a grid that carries the pinned value at every pinned   *)
(* cell; the values of the other cells follow a pattern selected by the    *)
(* random seed of the attempt.  The seeds of successive attempts are the   *)
(* successive values of a stream whose start is arbitrary.                 *)
(*                                                                         *)
(* The main thread is modelled by poll_map_generation, which takes the     *)
(* worker's result, spawns the tiles and tears the generation resources    *)
(* down.  AppSpec runs the worker and the poll together; Spec runs the      *)
(* worker alone; AdapterSpec applies try_generate_chunk to bounded inputs. *)
(* GameSpec adds the game-state machine of state/ and the load path of     *)
(* save/ui.rs; LoadingSpec runs the systems of the Loading state;          *)
(* GameFairSpec is GameSpec with the scheduling of the worker and of the   *)
(* per-frame systems as fairness conditions.                               *)
(***************************************************************************)
EXTENDS Integers, Sequences, FiniteSets, TLC

\* ------------------------------------------------------------------ sizes
\* crate::config::map (chunk-grid extent and chunk size), scaled down.
CHUNKS_X == 2
CHUNKS_Y == 2
GRID_X == 3
GRID_Y == 2
\* generate.rs, const GRID_Z.
GRID_Z == 5
\* generate.rs, const MAX_UNPIN_RADIUS.
MAX_UNPIN_RADIUS == 5

\* ModelInstance values are opaque tokens for the generation engine.
Models == {"m0", "m1", "m2"}
\* RngMode::RandomSeed: the seeds the solver may draw for an attempt.
RngSeeds == {0, 1, 2, 3, 4, 5}

Chunks == (0 .. CHUNKS_X - 1) \X (0 .. CHUNKS_Y - 1)
NumCells == GRID_X * GRID_Y * GRID_Z
Indices == 0 .. NumCells - 1

\* ------------------------------------------------------- grid arithmetic
\* CartesianGrid::index_from_coords: x fastest, then y, then z.
index_from_coords(x, y, z) == x + y * GRID_X + z * GRID_X * GRID_Y

\* CartesianGrid::pos_from_index, the inverse of index_from_coords.
pos_from_index(i) ==
    << i % GRID_X, (i \div GRID_X) % GRID_Y, i \div (GRID_X * GRID_Y) >>

VARIABLES
    pc,                 \* position of the worker in generate_all_chunks
    cx, cy,             \* loop variables of the generation loop
    generated_chunks,   \* the solved-grid store: chunk coordinate -> grid
    progress,           \* the shared AtomicU32
    initial_nodes,      \* seed list of the chunk being generated
    radius,             \* loop variable of the unpin loop
    data,               \* grid returned by the successful attempt
    requests,           \* oracle requests made for the chunk being generated
    attempts,           \* number of oracle requests made, per chunk
    rng,                \* random seed the next oracle request will draw
    warned,             \* unpin radius reported by warn!, per chunk
    results,            \* the Vec<ChunkResult> returned by the worker
    task,               \* the MapGenTask resource is present
    spawn_resources,    \* Option<MapSpawnResources>: empty, or one record
    progress_resource,  \* the MapGenProgress resource is present
    map_ready,          \* the MapReady resource is present
    tiles,              \* tile entities spawned, in spawn order
    spawned,            \* chunks passed to spawn_chunk_tiles, in call order
    outcome,            \* what the last call of poll_map_generation found
    engine,             \* engine calls of the last traced try_generate_chunk
    state,              \* State<GameState>
    ui_active,          \* SaveLoadUIState.active, the slot list is shown
    pending,            \* PendingSaveLoadAction
    loading_text,       \* text of the loading screen
    rules               \* the rule set the generator is built from

worker_vars == << pc, cx, cy, generated_chunks, progress, initial_nodes, radius,
                  data, requests, attempts, rng, warned, results >>

game_vars == << state, ui_active, pending, loading_text >>

main_vars == << task, spawn_resources, progress_resource, map_ready, tiles,
                spawned, outcome, state, ui_active, pending, loading_text >>

vars == << pc, cx, cy, generated_chunks, progress, initial_nodes, radius,
           data, requests, attempts, rng, warned, results,
           task, spawn_resources, progress_resource, map_ready, tiles,
           spawned, outcome, engine, state, ui_active, pending, loading_text,
           rules >>

\* ------------------------------------------------------------ the oracle
\* Rule sets: "mixed" has several models and admits contradictions;
\* "uniform" has the single model m0, compatible with itself on every face.
RuleSets == { "mixed", "uniform" }

\* Faulty variant: the solver ignores the rule set.
Pattern_IgnoresRules(k, pos) ==
    LET n == (k + (1 + (k \div 3)) * pos[1] + 2 * pos[2] + pos[3]) % 3
    IN  IF n = 0 THEN "m0" ELSE IF n = 1 THEN "m1" ELSE "m2"

\* Value the solver gives to an unpinned cell under random seed k.
Pattern(k, pos) ==
    LET n == (k + (1 + (k \div 3)) * pos[1] + 2 * pos[2] + pos[3]) % 3
    IN  IF rules = "uniform" THEN "m0"
        ELSE IF n = 0 THEN "m0" ELSE IF n = 1 THEN "m1" ELSE "m2"

\* The grid of a successful generation: pinned cells keep their pinned
\* value, the others follow the pattern of the random seed.
Solve(nodes, k) ==
    LET idx(j) == index_from_coords(nodes[j][1][1], nodes[j][1][2], nodes[j][1][3])
        pinned == { idx(j) : j \in 1 .. Len(nodes) }
    IN  [ i \in Indices |->
            IF i \in pinned
            THEN nodes[CHOOSE j \in 1 .. Len(nodes) : idx(j) = i][2]
            ELSE Pattern(k, pos_from_index(i)) ]

\* ----------------------------------------------------- the Solver Adapter
\* Option::None of try_generate_chunk.
None == << >>

\* Answers of the generation engine to the calls of one try_generate_chunk:
\* with_initial_nodes accepts the pinned cells, build succeeds,
\* generate_grid succeeds.  Under the uniform rule set nothing can fail.
EngineAnswers ==
    IF rules = "uniform"
    THEN { [ accepts |-> TRUE, builds |-> TRUE, generates |-> TRUE ] }
    ELSE [ accepts : BOOLEAN, builds : BOOLEAN, generates : BOOLEAN ]

\* Faulty variant: a failed generation is requested a second time.
EngineCalls_RetriesGeneration(nodes, e) ==
    LET pin == IF nodes # << >> THEN << "with_initial_nodes" >> ELSE << >>
    IN  IF nodes # << >> /\ ~ e.accepts THEN pin
        ELSE IF ~ e.builds THEN pin \o << "build" >>
        ELSE IF ~ e.generates
             THEN pin \o << "build", "generate_grid", "generate_grid" >>
             ELSE pin \o << "build", "generate_grid" >>

\* The engine calls one try_generate_chunk makes, in order, up to the first
\* Err; with_initial_nodes is called only for a non-empty seed list.
EngineCalls(nodes, e) ==
    LET pin == IF nodes # << >> THEN << "with_initial_nodes" >> ELSE << >>
    IN  IF nodes # << >> /\ ~ e.accepts THEN pin
        ELSE IF ~ e.builds THEN pin \o << "build" >>
        ELSE pin \o << "build", "generate_grid" >>

\* No call of the engine answers Err.
Generated(nodes, e) ==
    /\ nodes # << >> => e.accepts
    /\ e.builds
    /\ e.generates

\* try_generate_chunk: Some(grid) when every engine call succeeds, else None.
try_generate_chunk(nodes, e, k) ==
    IF Generated(nodes, e) THEN Solve(nodes, k) ELSE None

\* ------------------------------------------------------- the Seam Seeder
\* Faulty variant: copies the left neighbour's left column instead of its right one.
LeftSeeds_LeftColumn(c_x, c_y, store) ==
    IF c_x > 0
    THEN [ i \in 1 .. GRID_Y * GRID_Z |->
             LET y == (i - 1) \div GRID_Z
                 z == (i - 1) % GRID_Z
             IN  << <<0, y, z>>,
                    store[<<c_x - 1, c_y>>][index_from_coords(0, y, z)] >> ]
    ELSE << >>

\* Left column (x = 0) from the left neighbour's right column.
LeftSeeds(c_x, c_y, store) ==
    IF c_x > 0
    THEN [ i \in 1 .. GRID_Y * GRID_Z |->
             LET y == (i - 1) \div GRID_Z
                 z == (i - 1) % GRID_Z
             IN  << <<0, y, z>>,
                    store[<<c_x - 1, c_y>>][index_from_coords(GRID_X - 1, y, z)] >> ]
    ELSE << >>

\* Faulty variant: copies the bottom neighbour's bottom row instead of its top row.
BottomSeeds_BottomRow(c_x, c_y, store) ==
    IF c_y > 0
    THEN LET start_x == IF c_x > 0 THEN 1 ELSE 0
         IN  [ i \in 1 .. (GRID_X - start_x) * GRID_Z |->
                 LET x == start_x + (i - 1) \div GRID_Z
                     z == (i - 1) % GRID_Z
                 IN  << <<x, 0, z>>,
                        store[<<c_x, c_y - 1>>][index_from_coords(x, 0, z)] >> ]
    ELSE << >>

\* Faulty variant: the bottom row starts at x = 0 even when the left column has
\* already pinned the corner.
BottomSeeds_FromCorner(c_x, c_y, store) ==
    IF c_y > 0
    THEN [ i \in 1 .. GRID_X * GRID_Z |->
             LET x == (i - 1) \div GRID_Z
                 z == (i - 1) % GRID_Z
             IN  << <<x, 0, z>>,
                    store[<<c_x, c_y - 1>>][index_from_coords(x, GRID_Y - 1, z)] >> ]
    ELSE << >>

\* Bottom row (y = 0) from the bottom neighbour's top row.
BottomSeeds(c_x, c_y, store) ==
    IF c_y > 0
    THEN LET start_x == IF c_x > 0 THEN 1 ELSE 0
         IN  [ i \in 1 .. (GRID_X - start_x) * GRID_Z |->
                 LET x == start_x + (i - 1) \div GRID_Z
                     z == (i - 1) % GRID_Z
                 IN  << <<x, 0, z>>,
                        store[<<c_x, c_y - 1>>][index_from_coords(x, GRID_Y - 1, z)] >> ]
    ELSE << >>

\* A lookup of generated_chunks[&key] panics when the key is missing.
NeighboursPresent(c_x, c_y, store) ==
    /\ c_x > 0 => <<c_x - 1, c_y>> \in DOMAIN store
    /\ c_y > 0 => <<c_x, c_y - 1>> \in DOMAIN store

\* Faulty variant: the bottom entries are emitted before the left entries.
build_initial_nodes_BottomFirst(c_x, c_y, store) ==
    BottomSeeds(c_x, c_y, store) \o LeftSeeds(c_x, c_y, store)

\* build_initial_nodes: the left entries, then the bottom entries.
build_initial_nodes(c_x, c_y, store) ==
    LeftSeeds(c_x, c_y, store) \o BottomSeeds(c_x, c_y, store)

\* --------------------------------------------------- the relaxation ladder
\* Faulty variant: the row arm of the L-shaped region reaches one cell too far.
KeepNode_WideRow(node, r) ==
    LET x == node[1][1]
        y == node[1][2]
    IN  ~ ((x = 0 /\ y < r) \/ (y = 0 /\ x > 0 /\ x <= r + 1))

\* Faulty variant: the column arm of the L-shaped region reaches one cell too far.
KeepNode_TallColumn(node, r) ==
    LET x == node[1][1]
        y == node[1][2]
    IN  ~ ((x = 0 /\ y <= r) \/ (y = 0 /\ x > 0 /\ x <= r))

\* Faulty variant: only the outermost cells of the L-shaped region are unpinned.
KeepNode_OutermostOnly(node, r) ==
    LET x == node[1][1]
        y == node[1][2]
    IN  ~ ((x = 0 /\ y = r - 1) \/ (y = 0 /\ x = r))

\* The filter of the unpin loop: keep the nodes outside the L-shaped region.
KeepNode(node, r) ==
    LET x == node[1][1]
        y == node[1][2]
    IN  ~ ((x = 0 /\ y < r) \/ (y = 0 /\ x > 0 /\ x <= r))

\* Faulty variant: the relaxed seed list also loses the left column above
\* the unpinned region.
reduced_DropsLeftColumn(nodes, r) ==
    SelectSeq(nodes, LAMBDA n : KeepNode(n, r) /\ n[1][1] # 0)

\* Lines 253-260: the seed list of the relaxed attempt at radius r.
reduced(nodes, r) == SelectSeq(nodes, LAMBDA n : KeepNode(n, r))

is_corner == cx > 0 /\ cy > 0

\* ------------------------------------------------------------------ Init
\* The worker as pool.spawn starts it, with the counter at 0; the seed
\* stream starts at one of the given seeds.
InitWorker(seeds) ==
    /\ pc = "seed"
    /\ cx = 0
    /\ cy = 0
    /\ generated_chunks = << >>
    /\ progress = 0
    /\ initial_nodes = << >>
    /\ radius = 0
    /\ data = << >>
    /\ requests = << >>
    /\ attempts = [ c \in Chunks |-> 0 ]
    /\ rng \in seeds
    /\ warned = << >>
    /\ results = << >>

\* Asset tables of the spawner: the models that have sprites to spawn.
AssetTables == { Models, Models \ { "m0" } }

\* The resources setup_generator inserts; nothing is spawned or polled yet.
\* The game is in state st, no slot list is shown and no load is pending.
InitMain(tables, st) ==
    /\ state = st
    /\ ui_active = FALSE
    /\ pending = None
    /\ loading_text = "Loading..."
    /\ task = TRUE
    /\ spawn_resources \in { << [ assets |-> a ] >> : a \in tables }
    /\ progress_resource = TRUE
    /\ map_ready = FALSE
    /\ tiles = << >>
    /\ spawned = << >>
    /\ outcome = "none"

\* No call of try_generate_chunk has been traced.
NoTrace == [ answers |-> [ accepts |-> TRUE, builds |-> TRUE, generates |-> TRUE ],
             calls |-> << >> ]

\* The state after setup_generator, every model having sprites, the game
\* waiting in the Loading state, with either rule set.
Init ==
    /\ InitWorker(RngSeeds)
    /\ InitMain({ Models }, "Loading")
    /\ engine = NoTrace
    /\ rules \in RuleSets

\* --------------------------------------------------------------- actions
\* Faulty variant: a doubly-seeded chunk enters the ladder at radius 1, without the
\* attempt with the full seed set.
Seed_StartsRelaxed ==
    /\ pc = "seed"
    /\ UNCHANGED << main_vars, engine, rules >>
    /\ initial_nodes' = build_initial_nodes(cx, cy, generated_chunks)
    /\ pc' = IF is_corner THEN "relax" ELSE "full"
    /\ requests' = << >>
    /\ radius' = IF is_corner THEN 1 ELSE 0
    /\ UNCHANGED << cx, cy, generated_chunks, progress, data, attempts, rng, warned,
                    results >>

\* generate_all_chunks, line 154: seed the borders from the neighbours.
Seed ==
    /\ pc = "seed"
    /\ UNCHANGED << main_vars, engine, rules >>
    /\ IF NeighboursPresent(cx, cy, generated_chunks)
       THEN /\ initial_nodes' = build_initial_nodes(cx, cy, generated_chunks)
            /\ pc' = "full"
       ELSE /\ pc' = "panic_index"
            /\ UNCHANGED initial_nodes
    /\ requests' = << >>
    /\ radius' = 0
    /\ UNCHANGED << cx, cy, generated_chunks, progress, data, attempts, rng, warned,
                    results >>

\* Last oracle request made for the chunk being generated.
LastRequest == requests[Len(requests)]

\* Faulty variant: only the four side faces of a pinned cell are flagged.
border_zones_SideFacesOnly(nodes) ==
    [ k \in 1 .. 4 * Len(nodes) |->
        LET node == nodes[(k - 1) \div 4 + 1]
        IN  << index_from_coords(node[1][1], node[1][2], node[1][3]),
               (k - 1) % 4 >> ]

\* try_generate_chunk, lines 276-284: the border zones handed to the
\* generator, one (cell index, direction) pair per seed entry and direction.
border_zones(nodes) ==
    [ k \in 1 .. 6 * Len(nodes) |->
        LET node == nodes[(k - 1) \div 6 + 1]
        IN  << index_from_coords(node[1][1], node[1][2], node[1][3]),
               (k - 1) % 6 >> ]

\* One call of try_generate_chunk with the given nodes, recorded with the
\* border zones it passes and with its answer (out is the returned grid,
\* empty when the attempt failed).
Request(nodes, r, ok, out) ==
    /\ requests' = Append(requests, [ chunk |-> <<cx, cy>>, radius |-> r,
                                      nodes |-> nodes,
                                      border_zones |-> border_zones(nodes),
                                      ok |-> ok, out |-> out ])
    /\ attempts' = [ attempts EXCEPT ![<<cx, cy>>] = @ + 1 ]
    /\ rng' = (rng + 1) % Cardinality(RngSeeds)

\* generate_chunk_with_fallback, lines 243-245: the full seed set succeeds.
FullOk ==
    /\ pc = "full"
    /\ UNCHANGED << main_vars, engine, rules >>
    /\ \E e \in EngineAnswers :
           /\ Generated(initial_nodes, e)
           /\ data' = try_generate_chunk(initial_nodes, e, rng)
    /\ Request(initial_nodes, 0, TRUE, data')
    /\ pc' = "insert"
    /\ UNCHANGED << cx, cy, generated_chunks, progress, initial_nodes, radius, warned,
                    results >>

\* Faulty variant: the is_corner test is missing, every failed chunk is relaxed.
FullFail_AlwaysRelaxes ==
    /\ pc = "full"
    /\ UNCHANGED << main_vars, engine, rules >>
    /\ Request(initial_nodes, 0, FALSE, << >>)
    /\ pc' = "relax"
    /\ radius' = 1
    /\ UNCHANGED << cx, cy, generated_chunks, progress, initial_nodes, data, warned,
                    results >>

\* Faulty variant: a failed attempt stores the grid left over from the previous
\* chunk under the coordinate of the chunk being generated.
FullFail_StoresStaleGrid ==
    /\ pc = "full"
    /\ UNCHANGED << main_vars, engine, rules >>
    /\ Request(initial_nodes, 0, FALSE, None)
    /\ generated_chunks' =
         [ c \in DOMAIN generated_chunks \cup { <<cx, cy>> } |->
             IF c = <<cx, cy>> THEN data ELSE generated_chunks[c] ]
    /\ IF ~ is_corner
       THEN pc' = "panic_non_corner" /\ UNCHANGED radius
       ELSE pc' = "relax" /\ radius' = 1
    /\ UNCHANGED << cx, cy, progress, initial_nodes, data, warned, results >>

\* generate_chunk_with_fallback, lines 243-249: the full seed set fails.
FullFail ==
    /\ pc = "full"
    /\ UNCHANGED << main_vars, engine, rules >>
    /\ \E e \in EngineAnswers :
           try_generate_chunk(initial_nodes, e, rng) = None
    /\ Request(initial_nodes, 0, FALSE, None)
    /\ IF ~ is_corner
       THEN pc' = "panic_non_corner" /\ UNCHANGED radius
       ELSE pc' = "relax" /\ radius' = 1
    /\ UNCHANGED << cx, cy, generated_chunks, progress, initial_nodes, data, warned,
                    results >>

\* generate_chunk_with_fallback, lines 252-265: the attempt at radius succeeds.
RelaxOk ==
    /\ pc = "relax"
    /\ UNCHANGED << main_vars, engine, rules >>
    /\ LET nodes == reduced(initial_nodes, radius)
       IN  /\ \E e \in EngineAnswers :
                  /\ Generated(nodes, e)
                  /\ data' = try_generate_chunk(nodes, e, rng)
           /\ Request(nodes, radius, TRUE, data')
    /\ warned' = [ c \in DOMAIN warned \cup { <<cx, cy>> } |->
                     IF c = <<cx, cy>> THEN radius ELSE warned[c] ]
    /\ pc' = "insert"
    /\ UNCHANGED << cx, cy, generated_chunks, progress, initial_nodes, radius, results >>

\* Faulty variant: the unpin loop advances the radius by two.
RelaxFail_SkipsRadius ==
    /\ pc = "relax"
    /\ UNCHANGED << main_vars, engine, rules >>
    /\ Request(reduced(initial_nodes, radius), radius, FALSE, << >>)
    /\ IF radius + 1 < MAX_UNPIN_RADIUS
       THEN pc' = "relax" /\ radius' = radius + 2
       ELSE pc' = "panic_corner" /\ UNCHANGED radius
    /\ UNCHANGED << cx, cy, generated_chunks, progress, initial_nodes, data, warned,
                    results >>

\* Faulty variant: the unpin loop runs over 1..MAX_UNPIN_RADIUS exclusive.
RelaxFail_ExclusiveRange ==
    /\ pc = "relax"
    /\ UNCHANGED << main_vars, engine, rules >>
    /\ Request(reduced(initial_nodes, radius), radius, FALSE, << >>)
    /\ IF radius + 1 < MAX_UNPIN_RADIUS
       THEN pc' = "relax" /\ radius' = radius + 1
       ELSE pc' = "panic_corner" /\ UNCHANGED radius
    /\ UNCHANGED << cx, cy, generated_chunks, progress, initial_nodes, data, warned,
                    results >>

\* Faulty variant: a failed relaxed attempt is repeated once at the same radius
\* before the loop moves on.
RelaxFail_RetriesRadius ==
    /\ pc = "relax"
    /\ UNCHANGED << main_vars, engine, rules >>
    /\ Request(reduced(initial_nodes, radius), radius, FALSE, << >>)
    /\ IF LastRequest.radius # radius
       THEN pc' = "relax" /\ UNCHANGED radius
       ELSE IF radius < MAX_UNPIN_RADIUS
            THEN pc' = "relax" /\ radius' = radius + 1
            ELSE pc' = "panic_corner" /\ UNCHANGED radius
    /\ UNCHANGED << cx, cy, generated_chunks, progress, initial_nodes, data, warned,
                    results >>

\* Lines 252-268: the attempt at radius fails; next radius, or the final panic.
RelaxFail ==
    /\ pc = "relax"
    /\ UNCHANGED << main_vars, engine, rules >>
    /\ \E e \in EngineAnswers :
           try_generate_chunk(reduced(initial_nodes, radius), e, rng) = None
    /\ Request(reduced(initial_nodes, radius), radius, FALSE, None)
    /\ IF radius < MAX_UNPIN_RADIUS
       THEN pc' = "relax" /\ radius' = radius + 1
       ELSE pc' = "panic_corner" /\ UNCHANGED radius
    /\ UNCHANGED << cx, cy, generated_chunks, progress, initial_nodes, data, warned,
                    results >>

\* Faulty variant: the store keeps the newest grid only.
Insert_Replaces ==
    /\ pc = "insert"
    /\ UNCHANGED << main_vars, engine, rules >>
    /\ generated_chunks' = [ c \in { <<cx, cy>> } |-> data ]
    /\ pc' = "count"
    /\ UNCHANGED << cx, cy, progress, initial_nodes, radius, data, requests,
                    attempts, rng, warned, results >>

\* Faulty variant: the counter is already advanced by the insertion, and again by
\* the fetch_add that follows.
Insert_AlsoCounts ==
    /\ pc = "insert"
    /\ UNCHANGED << main_vars, engine, rules >>
    /\ generated_chunks' =
         [ c \in DOMAIN generated_chunks \cup { <<cx, cy>> } |->
             IF c = <<cx, cy>> THEN data ELSE generated_chunks[c] ]
    /\ progress' = progress + 1
    /\ pc' = "count"
    /\ UNCHANGED << cx, cy, initial_nodes, radius, data, requests,
                    attempts, rng, warned, results >>

\* Faulty variant: the grid is stored under the transposed coordinate.
Insert_SwapsKey ==
    /\ pc = "insert"
    /\ UNCHANGED << main_vars, engine, rules >>
    /\ generated_chunks' =
         [ c \in DOMAIN generated_chunks \cup { <<cy, cx>> } |->
             IF c = <<cy, cx>> THEN data ELSE generated_chunks[c] ]
    /\ pc' = "count"
    /\ UNCHANGED << cx, cy, progress, initial_nodes, radius, data, requests,
                    attempts, rng, warned, results >>

\* generate_all_chunks, line 167: generated_chunks.insert((cx, cy), grid_data).
Insert ==
    /\ pc = "insert"
    /\ UNCHANGED << main_vars, engine, rules >>
    /\ generated_chunks' =
         [ c \in DOMAIN generated_chunks \cup { <<cx, cy>> } |->
             IF c = <<cx, cy>> THEN data ELSE generated_chunks[c] ]
    /\ pc' = "count"
    /\ UNCHANGED << cx, cy, progress, initial_nodes, radius, data, requests,
                    attempts, rng, warned, results >>

\* Faulty variant: the loops are nested the other way round (cx outer, cy inner).
NextChunk_ColumnMajor(c_x, c_y) ==
    IF c_y + 1 < CHUNKS_Y THEN << c_x, c_y + 1 >> ELSE << c_x + 1, 0 >>

\* The loop headers of lines 151-152: the chunk after (c_x, c_y), row-major.
NextChunk(c_x, c_y) ==
    IF c_x + 1 < CHUNKS_X THEN << c_x + 1, c_y >> ELSE << 0, c_y + 1 >>

\* Faulty variant: the origin chunk is counted twice.
Count_DoubleCountsOrigin ==
    /\ pc = "count"
    /\ UNCHANGED << main_vars, engine, rules >>
    /\ progress' = progress + (IF cx = 0 /\ cy = 0 THEN 2 ELSE 1)
    /\ cx' = NextChunk(cx, cy)[1]
    /\ cy' = NextChunk(cx, cy)[2]
    /\ pc' = IF NextChunk(cx, cy) \in Chunks THEN "seed" ELSE "assemble"
    /\ UNCHANGED << generated_chunks, initial_nodes, radius, data, requests,
                    attempts, rng, warned, results >>

\* generate_all_chunks, line 168: progress.fetch_add(1), then the next chunk.
Count ==
    /\ pc = "count"
    /\ UNCHANGED << main_vars, engine, rules >>
    /\ progress' = progress + 1
    /\ cx' = NextChunk(cx, cy)[1]
    /\ cy' = NextChunk(cx, cy)[2]
    /\ pc' = IF NextChunk(cx, cy) \in Chunks THEN "seed" ELSE "assemble"
    /\ UNCHANGED << generated_chunks, initial_nodes, radius, data, requests,
                    attempts, rng, warned, results >>

\* Row-major list of the chunk coordinates (cy outer, cx inner).
RowMajor ==
    [ i \in 1 .. CHUNKS_X * CHUNKS_Y |->
        << (i - 1) % CHUNKS_X, (i - 1) \div CHUNKS_X >> ]

\* Width and height of the stitched world in tiles (config::map): adjacent
\* chunks share one column or row.
TOTAL_GRID_X == CHUNKS_X * (GRID_X - 1) + 1
TOTAL_GRID_Y == CHUNKS_Y * (GRID_Y - 1) + 1

\* Faulty variant: chunks are placed a full grid apart.
chunk_offset_FullStride(chunk_x, chunk_y) ==
    << 2 * chunk_x * GRID_X - TOTAL_GRID_X,
       2 * chunk_y * GRID_Y - TOTAL_GRID_Y >>

\* generate_all_chunks, lines 178-182: the world offset of a chunk, x and y,
\* in half tiles (the unit is TILE_SIZE / 2, which makes TOTAL_GRID / 2
\* integral).
chunk_offset(chunk_x, chunk_y) ==
    << 2 * chunk_x * (GRID_X - 1) - TOTAL_GRID_X,
       2 * chunk_y * (GRID_Y - 1) - TOTAL_GRID_Y >>

\* Faulty variant: the result list is built with cx as the outer loop.
Assemble_ColumnMajor ==
    /\ pc = "assemble"
    /\ UNCHANGED << main_vars, engine, rules >>
    /\ IF Chunks \subseteq DOMAIN generated_chunks
       THEN /\ results' = [ i \in 1 .. CHUNKS_X * CHUNKS_Y |->
                             LET c == << (i - 1) \div CHUNKS_Y, (i - 1) % CHUNKS_Y >>
                             IN  [ chunk_x |-> c[1],
                                   chunk_y |-> c[2],
                                   chunk_offset |-> chunk_offset(c[1], c[2]),
                                   grid_data |-> generated_chunks[c] ] ]
            /\ generated_chunks' = << >>
            /\ pc' = "done"
       ELSE /\ pc' = "panic_unwrap"
            /\ UNCHANGED << results, generated_chunks >>
    /\ UNCHANGED << cx, cy, progress, initial_nodes, radius, data, requests, attempts,
                    rng, warned >>

\* generate_all_chunks, lines 174-191: drain the store into the result list.
Assemble ==
    /\ pc = "assemble"
    /\ UNCHANGED << main_vars, engine, rules >>
    /\ IF \A i \in 1 .. Len(RowMajor) : RowMajor[i] \in DOMAIN generated_chunks
       THEN /\ results' = [ i \in 1 .. Len(RowMajor) |->
                             [ chunk_x |-> RowMajor[i][1],
                               chunk_y |-> RowMajor[i][2],
                               chunk_offset |-> chunk_offset(RowMajor[i][1],
                                                             RowMajor[i][2]),
                               grid_data |-> generated_chunks[RowMajor[i]] ] ]
            /\ generated_chunks' = << >>
            /\ pc' = "done"
       ELSE /\ pc' = "panic_unwrap"
            /\ UNCHANGED << results, generated_chunks >>
    /\ UNCHANGED << cx, cy, progress, initial_nodes, radius, data, requests, attempts,
                    rng, warned >>

Next ==
    \/ Seed
    \/ FullOk
    \/ FullFail
    \/ RelaxOk
    \/ RelaxFail
    \/ Insert
    \/ Count
    \/ Assemble

Spec == Init /\ [][Next]_vars

\* ------------------------------------------------------ derived notions
Panics == { "panic_index", "panic_non_corner", "panic_corner", "panic_unwrap" }
Panicked == pc \in Panics
Terminal == pc = "done" \/ Panicked

\* Position of a chunk in the row-major order (cy outer, cx inner).
Rank(c) == c[2] * CHUNKS_X + c[1]

\* The chunks whose grid the worker holds: in the store during the loop,
\* in the result list once the run has completed.
SolvedChunks ==
    IF pc = "done"
    THEN { << results[i].chunk_x, results[i].chunk_y >> : i \in 1 .. Len(results) }
    ELSE DOMAIN generated_chunks

Solved(c) ==
    IF pc = "done"
    THEN results[CHOOSE i \in 1 .. Len(results) :
                    << results[i].chunk_x, results[i].chunk_y >> = c].grid_data
    ELSE generated_chunks[c]

\* Value of cell (x, y, z) of the solved grid of chunk c.
CellOf(c, x, y, z) == Solved(c)[x + y * GRID_X + z * GRID_X * GRID_Y]

\* The rung that produced a solved chunk: 0 for the full seed set, else the
\* radius that warn! reported.
Rung(c) == IF c \in DOMAIN warned THEN warned[c] ELSE 0

\* ---------------------------------------------------------- the main thread
\* Faulty variant: only the right column is left to the next chunk.
Overlap_RightColumnOnly(pos, chunk_x, chunk_y) ==
    pos[1] = GRID_X - 1 /\ chunk_x < CHUNKS_X - 1

\* Faulty variant: the right column and the top row are skipped in every
\* chunk, those at the edge of the world included.
Overlap_EveryChunk(pos, chunk_x, chunk_y) ==
    \/ pos[1] = GRID_X - 1
    \/ pos[2] = GRID_Y - 1

\* spawn_chunk_tiles, lines 331-336: the right column and the top row of a
\* chunk are left to the next chunk.
Overlap(pos, chunk_x, chunk_y) ==
    \/ pos[1] = GRID_X - 1 /\ chunk_x < CHUNKS_X - 1
    \/ pos[2] = GRID_Y - 1 /\ chunk_y < CHUNKS_Y - 1

\* Faulty variant: the adjustment is taken from the row within the chunk.
depth_adjust_LocalRow(chunk_y, pos) == TOTAL_GRID_Y - pos[2]

\* spawn_chunk_tiles, lines 351-353: the depth adjustment
\* NODE_SIZE_Z * (1 - global_y / TOTAL_GRID_Y), in units of
\* NODE_SIZE_Z / TOTAL_GRID_Y.
depth_adjust(chunk_y, pos) ==
    LET global_y == chunk_y * (GRID_Y - 1) + pos[2]
    IN  TOTAL_GRID_Y - global_y

\* spawn_chunk_tiles, lines 339-359: world x and y of the centre of a cell,
\* in half tiles, for an asset without offsets of its own.
world_pos(offset, pos) ==
    << offset[1] + 2 * pos[1] + 1, offset[2] + 2 * pos[2] + 1 >>

\* spawn_chunk_tiles: one tile per cell, in index order, for the cells whose
\* model has assets and that are not overlap cells.
spawn_chunk_tiles(chunk, assets) ==
    LET tile(i) ==
            LET pos == pos_from_index(i - 1)
            IN  [ chunk  |-> << chunk.chunk_x, chunk.chunk_y >>,
                  pos    |-> pos,
                  global |-> << chunk.chunk_x * (GRID_X - 1) + pos[1],
                                chunk.chunk_y * (GRID_Y - 1) + pos[2],
                                pos[3] >>,
                  world  |-> world_pos(chunk.chunk_offset, pos),
                  depth  |-> depth_adjust(chunk.chunk_y, pos),
                  model  |-> chunk.grid_data[i - 1] ]
    IN  SelectSeq([ i \in 1 .. NumCells |-> tile(i) ],
                  LAMBDA t : /\ t.model \in assets
                             /\ ~ Overlap(t.pos, chunk.chunk_x, chunk.chunk_y))

\* The loop of poll_map_generation over the chunks of the result.
RECURSIVE SpawnChunks(_, _)
SpawnChunks(chunks, assets) ==
    IF chunks = << >> THEN << >>
    ELSE spawn_chunk_tiles(Head(chunks), assets)
            \o SpawnChunks(Tail(chunks), assets)

\* Faulty variant: a worker that panicked counts as finished.
ResultReady_OnTermination == Terminal

\* Faulty variant: the task yields whatever result list exists as soon as the
\* counter stands at total.
ResultReady_AtLastCount == progress = CHUNKS_X * CHUNKS_Y

\* poll_once on the task yields the result once generate_all_chunks returned.
ResultReady == pc = "done"

\* Faulty variant: the poll tears the generation resources down although the
\* worker has not produced its result.
poll_map_generation_TearsDownEarly ==
    /\ outcome # "poll_panicked"
    /\ task' = FALSE
    /\ spawn_resources' = << >>
    /\ progress_resource' = FALSE
    /\ map_ready' = TRUE
    /\ outcome' = "ready"
    /\ UNCHANGED << tiles, spawned >>
    /\ UNCHANGED << worker_vars, engine, game_vars, rules >>

\* Faulty variant: the task resource is kept after its result was taken, so the
\* next poll takes and spawns the result again.
poll_map_generation_KeepsTask ==
    /\ outcome # "poll_panicked"
    /\ task /\ spawn_resources # << >> /\ ResultReady
    /\ Len(spawned) <= Len(results)
    /\ tiles' = tiles \o SpawnChunks(results, spawn_resources[1].assets)
    /\ spawned' = spawned \o [ i \in 1 .. Len(results) |->
                                 << results[i].chunk_x, results[i].chunk_y >> ]
    /\ map_ready' = TRUE
    /\ outcome' = "ready"
    /\ UNCHANGED << task, spawn_resources, progress_resource >>
    /\ UNCHANGED << worker_vars, engine, game_vars, rules >>

\* Faulty variant: a poll that has not seen the task pending before finds
\* it pending even though the worker has returned.
poll_map_generation_LagsOnePoll ==
    /\ outcome # "poll_panicked"
    /\ IF ~ task \/ spawn_resources = << >>
       THEN /\ outcome' = "absent"
            /\ UNCHANGED << task, spawn_resources, progress_resource, map_ready,
                            tiles, spawned >>
       ELSE IF ResultReady /\ outcome = "pending"
       THEN /\ tiles' = tiles \o SpawnChunks(results, spawn_resources[1].assets)
            /\ spawned' = spawned \o [ i \in 1 .. Len(results) |->
                                         << results[i].chunk_x, results[i].chunk_y >> ]
            /\ task' = FALSE
            /\ spawn_resources' = << >>
            /\ progress_resource' = FALSE
            /\ map_ready' = TRUE
            /\ outcome' = "ready"
       ELSE /\ outcome' = "pending"
            /\ UNCHANGED << task, spawn_resources, progress_resource, map_ready,
                            tiles, spawned >>
    /\ UNCHANGED << worker_vars, engine, game_vars, rules >>

\* poll_map_generation, lines 102-139.  A poll of a task whose worker
\* panicked never yields a result: it finds the task pending, or the panic
\* resurfaces in the polling thread, which the task library decides.
poll_map_generation ==
    /\ outcome # "poll_panicked"
    /\ IF ~ task \/ spawn_resources = << >>
       THEN /\ outcome' = "absent"
            /\ UNCHANGED << task, spawn_resources, progress_resource, map_ready,
                            tiles, spawned >>
       ELSE IF ResultReady
       THEN /\ tiles' = tiles \o SpawnChunks(results, spawn_resources[1].assets)
            /\ spawned' = spawned \o [ i \in 1 .. Len(results) |->
                                         << results[i].chunk_x, results[i].chunk_y >> ]
            /\ task' = FALSE
            /\ spawn_resources' = << >>
            /\ progress_resource' = FALSE
            /\ map_ready' = TRUE
            /\ outcome' = "ready"
       ELSE /\ outcome' \in IF Panicked THEN { "pending", "poll_panicked" }
                                         ELSE { "pending" }
            /\ UNCHANGED << task, spawn_resources, progress_resource, map_ready,
                            tiles, spawned >>
    /\ UNCHANGED << worker_vars, engine, game_vars, rules >>

\* AppSpec follows the seed stream from its first seed.
AppSeeds == { 0 }

\* The state after setup_generator, with any asset table, the game in the
\* Loading state, where every frame runs poll_map_generation.
AppInit ==
    /\ InitWorker(AppSeeds)
    /\ InitMain(AssetTables, "Loading")
    /\ engine = NoTrace
    /\ rules = "mixed"

\* The worker and the per-frame poll, interleaved.
AppNext ==
    \/ Next
    \/ poll_map_generation

AppSpec == AppInit /\ [][AppNext]_vars

\* ------------------------------------------------------- the game states
GameStates == { "MainMenu", "Loading", "Playing", "Paused", "GameOver" }

\* PendingSaveLoadAction holding a load request (the slot is immaterial).
Load == << "Load" >>

\* Tiles execute_load spawns from the save data: one tile of a saved world.
SavedTiles ==
    << [ chunk |-> << >>, pos |-> << 0, 0, 0 >>, global |-> << 0, 0, 0 >>,
         world |-> << 1 - TOTAL_GRID_X, 1 - TOTAL_GRID_Y >>,
         depth |-> TOTAL_GRID_Y, model |-> "m0" ] >>

\* spawn_loading_screen, run on entering Loading.
spawn_loading_screen == loading_text' = "Loading..."

\* cleanup_game_world: every tile is despawned and MapReady removed.
cleanup_game_world ==
    /\ tiles' = << >>
    /\ map_ready' = FALSE

\* handle_main_menu_buttons: New Game enters Loading, Load Game shows the
\* slot list.  (Quit ends the application and is left out.)
handle_main_menu_buttons ==
    /\ state = "MainMenu"
    /\ \E button \in { "NewGame", "LoadGame" } :
           IF button = "NewGame"
           THEN /\ state' = "Loading"
                /\ spawn_loading_screen
                /\ UNCHANGED ui_active
           ELSE /\ ui_active' = TRUE
                /\ UNCHANGED << state, loading_text >>
    /\ UNCHANGED << task, spawn_resources, progress_resource, map_ready, tiles,
                    spawned, outcome, pending >>
    /\ UNCHANGED << worker_vars, engine, rules >>

\* handle_slot_buttons: a slot of the list is pressed; the list showing in
\* load mode, the load is recorded and the list closed.
handle_slot_buttons ==
    /\ state \in { "Paused", "MainMenu" }
    /\ ui_active
    /\ pending' = Load
    /\ ui_active' = FALSE
    /\ UNCHANGED << task, spawn_resources, progress_resource, map_ready, tiles,
                    spawned, outcome, state, loading_text >>
    /\ UNCHANGED << worker_vars, engine, rules >>

\* handle_back_button: the slot list is closed.
handle_back_button ==
    /\ state \in { "Paused", "MainMenu" }
    /\ ui_active
    /\ ui_active' = FALSE
    /\ UNCHANGED << task, spawn_resources, progress_resource, map_ready, tiles,
                    spawned, outcome, state, pending, loading_text >>
    /\ UNCHANGED << worker_vars, engine, rules >>

\* execute_load, run in any state while a load is pending: the request is
\* consumed; if the slot holds a valid save, the tiles are replaced by the
\* saved ones, MapReady is inserted and the game goes to Playing.  The
\* generation resources are not touched.
execute_load ==
    /\ pending = Load
    /\ pending' = None
    /\ \E saved \in BOOLEAN :
           IF saved
           THEN /\ tiles' = SavedTiles
                /\ map_ready' = TRUE
                /\ state' = "Playing"
           ELSE UNCHANGED << tiles, map_ready, state >>
    /\ UNCHANGED << task, spawn_resources, progress_resource, spawned, outcome,
                    ui_active, loading_text >>
    /\ UNCHANGED << worker_vars, engine, rules >>

\* check_assets_loaded: with the character assets loaded and MapReady
\* present, Loading is left for Playing.
check_assets_loaded ==
    /\ state = "Loading"
    /\ \E characters_loaded \in BOOLEAN :
           IF characters_loaded /\ map_ready
           THEN state' = "Playing"
           ELSE UNCHANGED state
    /\ UNCHANGED << task, spawn_resources, progress_resource, map_ready, tiles,
                    spawned, outcome, ui_active, pending, loading_text >>
    /\ UNCHANGED << worker_vars, engine, rules >>

\* Faulty variant: the text reports the size of the worker's store.
animate_loading_ReadsStore ==
    /\ state = "Loading"
    /\ loading_text' =
           IF map_ready THEN "Starting..."
           ELSE IF progress_resource
           THEN "Generating world: "
                    \o ToString(Cardinality(DOMAIN generated_chunks)) \o "/"
                    \o ToString(CHUNKS_X * CHUNKS_Y)
           ELSE "Loading"
    /\ UNCHANGED << task, spawn_resources, progress_resource, map_ready, tiles,
                    spawned, outcome, state, ui_active, pending >>
    /\ UNCHANGED << worker_vars, engine, rules >>

\* Faulty variant: the text reports the number of the chunk being generated.
animate_loading_ReportsNext ==
    /\ state = "Loading"
    /\ loading_text' =
           IF map_ready THEN "Starting..."
           ELSE IF progress_resource
           THEN "Generating world: " \o ToString(progress + 1) \o "/"
                    \o ToString(CHUNKS_X * CHUNKS_Y)
           ELSE "Loading"
    /\ UNCHANGED << task, spawn_resources, progress_resource, map_ready, tiles,
                    spawned, outcome, state, ui_active, pending >>
    /\ UNCHANGED << worker_vars, engine, rules >>

\* animate_loading: the text of the loading screen; the counter is read only
\* when the progress resource is present and MapReady is not.
animate_loading ==
    /\ state = "Loading"
    /\ loading_text' =
           IF map_ready THEN "Starting..."
           ELSE IF progress_resource
           THEN "Generating world: " \o ToString(progress) \o "/"
                    \o ToString(CHUNKS_X * CHUNKS_Y)
           ELSE "Loading"
    /\ UNCHANGED << task, spawn_resources, progress_resource, map_ready, tiles,
                    spawned, outcome, state, ui_active, pending >>
    /\ UNCHANGED << worker_vars, engine, rules >>

\* toggle_pause: Escape switches between Playing and Paused unless the slot
\* list is shown.
toggle_pause ==
    /\ state \in { "Playing", "Paused" }
    /\ ~ ui_active
    /\ state' = IF state = "Playing" THEN "Paused" ELSE "Playing"
    /\ UNCHANGED << task, spawn_resources, progress_resource, map_ready, tiles,
                    spawned, outcome, ui_active, pending, loading_text >>
    /\ UNCHANGED << worker_vars, engine, rules >>

\* on_entity_death for the player: the game is over.
on_entity_death ==
    /\ state = "Playing"
    /\ state' = "GameOver"
    /\ UNCHANGED << task, spawn_resources, progress_resource, map_ready, tiles,
                    spawned, outcome, ui_active, pending, loading_text >>
    /\ UNCHANGED << worker_vars, engine, rules >>

\* handle_restart_input: R leaves GameOver for Loading; leaving GameOver
\* runs cleanup_game_world, entering Loading spawns the loading screen.
handle_restart_input ==
    /\ state = "GameOver"
    /\ state' = "Loading"
    /\ cleanup_game_world
    /\ spawn_loading_screen
    /\ UNCHANGED << task, spawn_resources, progress_resource, spawned, outcome,
                    ui_active, pending >>
    /\ UNCHANGED << worker_vars, engine, rules >>

\* The application starts in the main menu, right after setup_generator.
GameInit ==
    /\ InitWorker(AppSeeds)
    /\ InitMain({ Models }, "MainMenu")
    /\ engine = NoTrace
    /\ rules = "mixed"

\* The worker, the systems of the game states, and the poll, which runs in
\* the Loading state only.
GameNext ==
    \/ Next
    \/ state = "Loading" /\ poll_map_generation
    \/ handle_main_menu_buttons
    \/ handle_slot_buttons
    \/ handle_back_button
    \/ execute_load
    \/ check_assets_loaded
    \/ animate_loading
    \/ toggle_pause
    \/ on_entity_death
    \/ handle_restart_input

GameSpec == GameInit /\ [][GameNext]_vars

\* The game waits in the Loading state while the worker runs: each frame
\* runs the poll, check_assets_loaded and animate_loading.
LoadingInit ==
    /\ InitWorker(AppSeeds)
    /\ InitMain({ Models }, "Loading")
    /\ engine = NoTrace
    /\ rules = "mixed"

LoadingNext ==
    \/ Next
    \/ state = "Loading" /\ poll_map_generation
    \/ check_assets_loaded
    \/ animate_loading

LoadingSpec == LoadingInit /\ [][LoadingNext]_vars

\* ------------------------------------------- try_generate_chunk on its own
\* Longest seed list handed to the adapter.
MaxSeeds == 2

\* Cells the seed lists pin: a corner and its neighbour in the left column.
SeedCells == { << 0, 0, 0 >>, << 0, 1, 0 >> }

\* Seed lists of at most MaxSeeds entries; two entries may pin the same cell.
SeedLists == UNION { [ 1 .. n -> SeedCells \X Models ] : n \in 0 .. MaxSeeds }

\* One call of try_generate_chunk is about to be made with any seed list.
AdapterInit ==
    /\ pc = "call"
    /\ cx = 0
    /\ cy = 0
    /\ generated_chunks = << >>
    /\ progress = 0
    /\ initial_nodes \in SeedLists
    /\ radius = 0
    /\ data = << >>
    /\ requests = << >>
    /\ attempts = [ c \in Chunks |-> 0 ]
    /\ rng \in RngSeeds
    /\ warned = << >>
    /\ results = << >>
    /\ InitMain({ Models }, "Loading")
    /\ engine = NoTrace
    /\ rules = "mixed"

\* try_generate_chunk, lines 271-312, with the engine calls it makes.
Call ==
    /\ pc = "call"
    /\ \E e \in EngineAnswers :
           /\ data' = try_generate_chunk(initial_nodes, e, rng)
           /\ engine' = [ answers |-> e, calls |-> EngineCalls(initial_nodes, e) ]
    /\ Request(initial_nodes, 0, data' # None, data')
    /\ pc' = "returned"
    /\ UNCHANGED << cx, cy, generated_chunks, progress, initial_nodes, radius,
                    warned, results, main_vars, rules >>

AdapterSpec == AdapterInit /\ [][Call]_vars

\* ================================================================ claims

\* C1 (as claimed): after a completed run, for every chunk with cx > 0 and
\* all y, z, cell (0, y, z) equals the left neighbour's cell
\* (GRID_X - 1, y, z), whichever rung of the ladder produced the grid.
C1_XSeamEveryRung ==
    pc = "done" =>
        \A c \in SolvedChunks : c[1] > 0 =>
            \A y \in 0 .. GRID_Y - 1, z \in 0 .. GRID_Z - 1 :
                CellOf(c, 0, y, z) = CellOf(<<c[1] - 1, c[2]>>, GRID_X - 1, y, z)

\* C1 (amended): for every solved chunk with cx > 0, cell (0, y, z) equals
\* the left neighbour's cell (GRID_X - 1, y, z) for all z and all y that are
\* not below the unpin radius of the rung that produced the chunk (every y
\* when the full seed set succeeded).
C1_XSeamOutsideUnpinned ==
    \A c \in SolvedChunks : c[1] > 0 =>
        \A y \in 0 .. GRID_Y - 1, z \in 0 .. GRID_Z - 1 :
            y >= Rung(c) =>
                CellOf(c, 0, y, z) = CellOf(<<c[1] - 1, c[2]>>, GRID_X - 1, y, z)

\* A completed run in which a chunk was produced at radius 1 and still has
\* a pinned row of its left seam above the unpinned region.
C1_Witness ==
    /\ pc = "done"
    /\ \E c \in SolvedChunks : c[1] > 0 /\ Rung(c) = 1 /\ GRID_Y > 1

\* C2 (as claimed): after a completed run, for every chunk with cy > 0, all
\* z and all x from (1 if cx > 0 else 0), cell (x, 0, z) equals the bottom
\* neighbour's cell (x, GRID_Y - 1, z), whichever rung produced the grid.
C2_YSeamEveryRung ==
    pc = "done" =>
        \A c \in SolvedChunks : c[2] > 0 =>
            \A x \in (IF c[1] > 0 THEN 1 ELSE 0) .. GRID_X - 1, z \in 0 .. GRID_Z - 1 :
                CellOf(c, x, 0, z) = CellOf(<<c[1], c[2] - 1>>, x, GRID_Y - 1, z)

\* C2 (amended): for every solved chunk with cy > 0, all z and all x from
\* (1 if cx > 0 else 0) that are above the unpin radius of the rung that
\* produced the chunk, cell (x, 0, z) equals the bottom neighbour's cell
\* (x, GRID_Y - 1, z).
C2_YSeamOutsideUnpinned ==
    \A c \in SolvedChunks : c[2] > 0 =>
        \A x \in (IF c[1] > 0 THEN 1 ELSE 0) .. GRID_X - 1, z \in 0 .. GRID_Z - 1 :
            x > Rung(c) \/ Rung(c) = 0 =>
                CellOf(c, x, 0, z) = CellOf(<<c[1], c[2] - 1>>, x, GRID_Y - 1, z)

\* A completed run in which a chunk was produced at radius 1 and still has
\* pinned cells of its bottom seam right of the unpinned region.
C2_Witness ==
    /\ pc = "done"
    /\ \E c \in SolvedChunks : c[2] > 0 /\ Rung(c) = 1 /\ GRID_X > 2

\* C3 (as claimed): after a completed run, for every chunk with cy > 0 and
\* ALL x (the corner x = 0 included when cx > 0) and all z, cell (x, 0, z)
\* equals the bottom neighbour's cell (x, GRID_Y - 1, z).
C3_YSeamWholeRow ==
    pc = "done" =>
        \A c \in SolvedChunks : c[2] > 0 =>
            \A x \in 0 .. GRID_X - 1, z \in 0 .. GRID_Z - 1 :
                CellOf(c, x, 0, z) = CellOf(<<c[1], c[2] - 1>>, x, GRID_Y - 1, z)

\* C3 (amended): for every solved chunk with cy > 0 and all z, cell
\* (x, 0, z) equals the bottom neighbour's cell (x, GRID_Y - 1, z) for every
\* x >= 1 above the chunk's unpin radius, and for the corner x = 0 when the
\* chunk was produced by its full seed set, its left neighbour kept the pin
\* of its cell (GRID_X - 1, 0, z) (unpin radius below GRID_X - 1) and its
\* bottom neighbour kept the pin of its cell (0, GRID_Y - 1, z) (unpin
\* radius below GRID_Y).
C3_YSeamWholeRowPinned ==
    \A c \in SolvedChunks : c[2] > 0 =>
        \A x \in 0 .. GRID_X - 1, z \in 0 .. GRID_Z - 1 :
            ( \/ c[1] = 0
              \/ x >= 1 /\ x > Rung(c)
              \/ /\ x = 0
                 /\ Rung(c) = 0
                 /\ Rung(<<c[1] - 1, c[2]>>) < GRID_X - 1
                 /\ Rung(<<c[1], c[2] - 1>>) < GRID_Y )
            => CellOf(c, x, 0, z) = CellOf(<<c[1], c[2] - 1>>, x, GRID_Y - 1, z)

\* A completed run with a doubly-seeded chunk produced by its full seed set:
\* its corner cell is seeded from the left neighbour only.
C3_Witness ==
    /\ pc = "done"
    /\ \E c \in SolvedChunks : c[1] > 0 /\ c[2] > 0 /\ Rung(c) = 0

\* C4: chunks are generated in row-major order, and whenever
\* build_initial_nodes is called for chunk (cx, cy) the store holds the left
\* neighbour if cx > 0 and the bottom neighbour if cy > 0: the lookups never
\* hit a missing key.
C4_NeighboursSolvedWhenSeeding ==
    /\ pc # "panic_index"
    /\ pc = "seed" =>
        /\ cx > 0 => <<cx - 1, cy>> \in DOMAIN generated_chunks
        /\ cy > 0 => <<cx, cy - 1>> \in DOMAIN generated_chunks
        /\ DOMAIN generated_chunks =
             { c \in Chunks : Rank(c) < Rank(<<cx, cy>>) }

\* The seeder is about to run for a chunk with both neighbours.
C4_Witness == pc = "seed" /\ cx > 0 /\ cy > 0

\* Cells the Seam Seeder pins for chunk c: the left column when cx > 0, the
\* bottom row (without the corner when cx > 0) when cy > 0.
SeamCells(c) ==
    { <<0, y, z>> : y \in { v \in 0 .. GRID_Y - 1 : c[1] > 0 }, z \in 0 .. GRID_Z - 1 }
    \cup
    { <<x, 0, z>> : x \in { v \in 0 .. GRID_X - 1 :
                              c[2] > 0 /\ (c[1] > 0 => v >= 1) },
                    z \in 0 .. GRID_Z - 1 }

\* Cells pinned by a seed list.
PinnedCells(nodes) == { nodes[j][1] : j \in 1 .. Len(nodes) }

\* C5: the first oracle attempt of every chunk uses the complete seed set of
\* the Seam Seeder, and a relaxed attempt is made only after the full-seed
\* attempt of the same chunk has failed.
C5_FullSeedSetFirst ==
    requests # << >> =>
        /\ requests[1].radius = 0
        /\ requests[1].nodes = initial_nodes
        /\ PinnedCells(requests[1].nodes) = SeamCells(requests[1].chunk)
        /\ \A i \in 1 .. Len(requests) :
               requests[i].radius > 0 =>
                   /\ i > 1
                   /\ ~ requests[1].ok
                   /\ requests[1].chunk = requests[i].chunk

\* A relaxed attempt has been made after the full-seed attempt failed.
C5_Witness ==
    /\ Len(requests) >= 2
    /\ requests[2].radius = 1
    /\ requests[1].nodes # << >>

\* C6: after a failed full-seed attempt of a doubly-seeded chunk the radii
\* are tried as 1, 2, ... in increasing order, each once; the first success
\* ends the ladder, its radius is the one reported, its grid is the one
\* stored, and no further attempt is made for the chunk.
C6_LadderOrderAndStop ==
    /\ \A i \in 1 .. Len(requests) : requests[i].radius = i - 1
    /\ \A i \in 1 .. Len(requests) - 1 : ~ requests[i].ok
    /\ (requests # << >> /\ LastRequest.ok) =>
          LET c == LastRequest.chunk
              r == LastRequest.radius
          IN  /\ pc \notin { "full", "relax" }
              /\ ~ Panicked
              /\ Rung(c) = r
              /\ attempts[c] = r + 1
              /\ pc = "insert" => data = LastRequest.out
              /\ c \in SolvedChunks => Solved(c) = LastRequest.out
              /\ pc \in { "count", "assemble", "done" } => c \in SolvedChunks
    /\ \A c \in SolvedChunks : attempts[c] = Rung(c) + 1

\* Full seeding and radius 1 failed, radius 2 succeeded: the chunk is stored
\* and radius 2 is reported.
C6_Witness ==
    /\ pc = "count"
    /\ Len(requests) = 3
    /\ LastRequest.ok
    /\ <<cx, cy>> \in DOMAIN warned
    /\ warned[<<cx, cy>>] = 2

\* C7: relaxed attempts are made only for chunks with cx > 0 and cy > 0; for
\* every other chunk the failure of the single full-seed attempt aborts the
\* run at once: one attempt for that chunk, none for any later chunk.
C7_OnlyCornerChunksRelax ==
    /\ \A i \in 1 .. Len(requests) :
           requests[i].radius > 0 =>
               requests[i].chunk[1] > 0 /\ requests[i].chunk[2] > 0
    /\ \A c \in Chunks : (c[1] = 0 \/ c[2] = 0) => attempts[c] <= 1
    /\ (requests # << >> /\ ~ LastRequest.ok
          /\ (LastRequest.chunk[1] = 0 \/ LastRequest.chunk[2] = 0)) =>
          /\ pc = "panic_non_corner"
          /\ attempts[LastRequest.chunk] = 1
          /\ \A c \in Chunks :
                 Rank(c) > Rank(LastRequest.chunk) => attempts[c] = 0
          /\ ~ ENABLED Next

\* The singly-seeded chunk (1, 0) failed its full-seed attempt.
C7_Witness == pc = "panic_non_corner" /\ cx = 1 /\ cy = 0

\* A cell lies in the L-shaped region of radius r when
\* (x = 0 and y < r) or (y = 0 and 0 < x <= r).
InsideL(cell, r) ==
    \/ cell[1] = 0 /\ cell[2] < r
    \/ cell[2] = 0 /\ cell[1] > 0 /\ cell[1] <= r

\* C8: the seed set of the relaxed attempt at radius r is the full seed set
\* minus every entry in the L-shaped region of radius r, the kept entries in
\* their original order with their values; the full seed set is unchanged.
C8_ReducedSeedSet ==
    \A i \in 1 .. Len(requests) :
        LET r    == requests[i].radius
            full == requests[1].nodes
        IN  /\ full = initial_nodes
            /\ requests[i].nodes =
                   SelectSeq(full, LAMBDA e : ~ InsideL(e[1], r))

\* A relaxed attempt at radius 1 that removed some seeds and kept others.
C8_Witness ==
    /\ Len(requests) >= 2
    /\ requests[2].radius = 1
    /\ requests[2].nodes # << >>
    /\ Len(requests[2].nodes) < Len(requests[1].nodes)

\* C9: when the full-seed attempt and the relaxed attempts at every radius
\* 1..MAX_UNPIN_RADIUS of a doubly-seeded chunk all fail, the run aborts; no
\* radius above MAX_UNPIN_RADIUS is attempted and the chunk is never stored.
C9_LadderExhaustionFatal ==
    /\ \A i \in 1 .. Len(requests) : requests[i].radius <= MAX_UNPIN_RADIUS
    /\ pc = "panic_corner" =>
          /\ Len(requests) = MAX_UNPIN_RADIUS + 1
          /\ \A i \in 1 .. Len(requests) :
                 ~ requests[i].ok /\ requests[i].radius = i - 1
          /\ <<cx, cy>> \notin SolvedChunks
          /\ results = << >>
          /\ ~ ENABLED Next
    /\ (Len(requests) = MAX_UNPIN_RADIUS + 1 /\ ~ LastRequest.ok) =>
          pc = "panic_corner"

\* A doubly-seeded chunk has failed at every rung of the ladder.
C9_Witness ==
    /\ pc = "panic_corner"
    /\ cx > 0 /\ cy > 0
    /\ Len(requests) = MAX_UNPIN_RADIUS + 1

\* Attempts per chunk: one without both neighbours, 1 + MAX_UNPIN_RADIUS with.
AttemptsBounded ==
    \A c \in Chunks :
        attempts[c] <= IF c[1] > 0 /\ c[2] > 0 THEN 1 + MAX_UNPIN_RADIUS ELSE 1

\* A step that makes an oracle attempt right after a failed attempt is a
\* relaxed attempt of a doubly-seeded chunk.
RetryOnlyInLadder ==
    (Len(requests') = Len(requests) + 1 /\ requests # << >>) =>
        /\ ~ LastRequest.ok
        /\ LastRequest.chunk[1] > 0 /\ LastRequest.chunk[2] > 0
        /\ requests'[Len(requests')].radius > 0
        /\ requests'[Len(requests')].chunk = LastRequest.chunk

\* Steps one chunk can take: seeding, 1 + MAX_UNPIN_RADIUS attempts, the
\* insertion and the progress increment.
StepsPerChunk == MAX_UNPIN_RADIUS + 4

\* Upper bound on the steps the worker can still take.
StepsLeft ==
    IF Terminal THEN 0
    ELSE IF pc = "assemble" THEN 1
    ELSE (CHUNKS_X * CHUNKS_Y - Rank(<<cx, cy>>) - 1) * StepsPerChunk + 1
         + ( IF pc = "seed" THEN StepsPerChunk
             ELSE IF pc = "full" THEN StepsPerChunk - 1
             ELSE IF pc = "relax" THEN MAX_UNPIN_RADIUS - radius + 3
             ELSE IF pc = "insert" THEN 2
             ELSE 1 )

\* A worker that has neither returned nor panicked can take its next step.
CanStep ==
    /\ pc \in { "seed", "full", "relax", "insert", "count", "assemble" }
    /\ pc = "seed" => ENABLED Seed
    /\ pc = "full" => ENABLED FullFail \/ ENABLED FullOk
    /\ pc = "relax" => ENABLED RelaxFail \/ ENABLED RelaxOk
    /\ pc = "insert" => ENABLED Insert
    /\ pc = "count" => ENABLED Count
    /\ pc = "assemble" => ENABLED Assemble

\* C10: under any pattern of oracle successes and failures the job reaches a
\* terminal state (all chunks solved, or aborted) after finitely many
\* attempts: every step lowers a bound on the steps left and a state that is
\* not terminal has a next step; at most 1 attempt is made per chunk having
\* cx = 0 or cy = 0 and at most 1 + MAX_UNPIN_RADIUS per doubly-seeded
\* chunk; only the ladder follows a failed attempt by another attempt.
C10_TerminatesWithBoundedAttempts ==
    /\ []AttemptsBounded
    /\ [](StepsLeft >= 0)
    /\ [](Terminal \/ CanStep)
    /\ [][RetryOnlyInLadder /\ StepsLeft' < StepsLeft]_vars

\* A completed run in which a chunk needed every rung of the ladder.
C10_Witness ==
    /\ pc = "done"
    /\ \E c \in Chunks : attempts[c] = 1 + MAX_UNPIN_RADIUS

\* Number of chunks, the total of MapGenProgress.
total == CHUNKS_X * CHUNKS_Y

\* After an abort nothing has been handed over: no result list, no chunk
\* given to spawn_chunk_tiles, no tile, no MapReady, no poll that found the
\* result, and the counter is below total.
NothingHandedOver ==
    /\ results = << >>
    /\ spawned = << >>
    /\ tiles = << >>
    /\ ~ map_ready
    /\ outcome # "ready"
    /\ progress < total

\* C11: once the worker has aborted (a chunk without both neighbours failed,
\* or a doubly-seeded chunk exhausted the ladder) no ChunkResult is handed to
\* the caller, no tile is spawned, poll_map_generation never inserts
\* MapReady, and the counter stays strictly below total: the abort is final
\* and the counter no longer moves.
C11_NoPartialResultAfterAbort ==
    /\ [](Panicked => NothingHandedOver)
    /\ [][Panicked => pc' = pc /\ progress' = progress]_vars

\* The ladder of the last chunk is exhausted and a later poll has run: the
\* counter stands one below total.
C11_Witness ==
    /\ pc = "panic_corner"
    /\ outcome \in { "pending", "poll_panicked" }
    /\ progress = total - 1

\* The step is the fetch_add that follows the insertion of chunk (cx, cy):
\* the chunk is in the store with the grid of its successful attempt, and it
\* is the one stored chunk not yet counted.
CountsStoredChunk ==
    /\ pc = "count"
    /\ <<cx, cy>> \in DOMAIN generated_chunks
    /\ LastRequest.ok
    /\ LastRequest.chunk = <<cx, cy>>
    /\ generated_chunks[<<cx, cy>>] = LastRequest.out
    /\ progress + 1 = Cardinality(DOMAIN generated_chunks)

\* C12: the counter starts at 0, never decreases, changes only by +1, each
\* increment made by the worker right after it stored one successfully
\* solved chunk, and never exceeds total = CHUNKS_X * CHUNKS_Y.
C12_ProgressMonotone ==
    /\ progress = 0
    /\ [](progress \in 0 .. total)
    /\ [][ \/ progress' = progress
           \/ progress' = progress + 1 /\ CountsStoredChunk ]_vars

\* Every chunk has been counted: the counter stands at total.
C12_Witness == progress = total /\ pc = "done"

\* The last chunk of the row-major order.
LastChunk == << CHUNKS_X - 1, CHUNKS_Y - 1 >>

\* The step in which poll_map_generation takes the worker's result.
TakesResult == task /\ ~ task'

\* C13 (as claimed): the counter equals total if and only if every chunk
\* has been solved and stored.
C13_TotalIffAllStored ==
    progress = total <=> SolvedChunks = Chunks

\* C13 (amended): the counter equals total only when every chunk has been
\* solved and stored; when every chunk is stored the counter equals total,
\* except between the insertion of the last chunk and its increment, where
\* it is total - 1.  The value total is reached by one increment, the one
\* that follows the last chunk of the row-major order, and is kept from
\* then on; whenever poll_map_generation takes the worker's result the
\* counter equals total.
C13_TotalAtCompletion ==
    /\ [](progress = total => SolvedChunks = Chunks)
    /\ [](SolvedChunks = Chunks =>
            \/ progress = total
            \/ progress = total - 1 /\ pc = "count" /\ <<cx, cy>> = LastChunk)
    /\ [][ (progress' = total /\ progress # total) =>
               /\ pc = "count"
               /\ <<cx, cy>> = LastChunk
               /\ progress = total - 1 ]_vars
    /\ [][ progress = total => progress' = total ]_vars
    /\ [][ TakesResult => progress = total /\ outcome' = "ready" ]_vars

\* The poll has taken the result of a completed run, the counter at total.
C13_Witness ==
    /\ outcome = "ready"
    /\ ~ task
    /\ progress = total

\* A step that keeps every stored grid as it is and adds at most the grid of
\* the successful attempt of the chunk being generated.
StoreGrows ==
    /\ DOMAIN generated_chunks \subseteq DOMAIN generated_chunks'
    /\ \A c \in DOMAIN generated_chunks :
           generated_chunks'[c] = generated_chunks[c]
    /\ \A c \in DOMAIN generated_chunks' \ DOMAIN generated_chunks :
           /\ pc = "insert"
           /\ c = <<cx, cy>>
           /\ LastRequest.ok
           /\ LastRequest.chunk = c
           /\ generated_chunks'[c] = LastRequest.out

\* The step that drains the complete store into the result list.
StoreDrained ==
    /\ pc = "assemble"
    /\ DOMAIN generated_chunks = Chunks
    /\ generated_chunks' = << >>
    /\ Len(results') = total
    /\ \A i \in 1 .. Len(results') :
           results'[i].grid_data =
               generated_chunks[<< results'[i].chunk_x, results'[i].chunk_y >>]

\* C14: during the generation loop a chunk coordinate is inserted into the
\* store at most once and only after an oracle attempt for that chunk
\* succeeded; a stored grid is not overwritten, modified or removed until
\* every chunk is solved and the store is drained into the result list.
C14_WriteOnceStore ==
    /\ [](pc = "insert" =>
            /\ <<cx, cy>> \notin DOMAIN generated_chunks
            /\ LastRequest.ok
            /\ LastRequest.chunk = <<cx, cy>>
            /\ data = LastRequest.out)
    /\ [][StoreGrows \/ StoreDrained]_vars

\* The store has been filled chunk by chunk and drained.
C14_Witness ==
    /\ pc = "done"
    /\ generated_chunks = << >>
    /\ Len(results) = total

\* A step in which try_generate_chunk is called and returns None.
FailedAttempt ==
    /\ Len(requests') = Len(requests) + 1
    /\ ~ requests'[Len(requests')].ok

\* C15: a failed oracle attempt (full seed set, or relaxed at any radius)
\* leaves the store and the counter unchanged: nothing is persisted for the
\* chunk being generated and no stored grid changes.
C15_FailedAttemptFrame ==
    /\ [][ FailedAttempt =>
               /\ generated_chunks' = generated_chunks
               /\ progress' = progress
               /\ requests'[Len(requests')].out = None
               /\ requests'[Len(requests')].chunk \notin DOMAIN generated_chunks'
          ]_vars
    /\ []( (requests # << >> /\ ~ LastRequest.ok) =>
              LastRequest.chunk \notin DOMAIN generated_chunks )

\* The full seed set and radius 1 have failed for the last chunk: the store
\* and the counter still hold the chunks solved before.
C15_Witness ==
    /\ Len(requests) = 2
    /\ ~ LastRequest.ok
    /\ LastRequest.radius = 1
    /\ progress = total - 1
    /\ DOMAIN generated_chunks = Chunks \ { LastChunk }

\* The seed list of chunk (cx, cy) is in use: from its construction until
\* the loop moves to the next chunk.
SeedListInUse ==
    pc \in { "full", "relax", "insert", "count", "panic_non_corner", "panic_corner" }

\* Number of left entries of the seed list of chunk (cx, cy).
LeftCount == IF cx > 0 THEN GRID_Y * GRID_Z ELSE 0

\* First x of the bottom entries of chunk (cx, cy).
StartX == IF cx > 0 THEN 1 ELSE 0

\* Number of bottom entries of the seed list of chunk (cx, cy).
BottomCount == IF cy > 0 THEN (GRID_X - StartX) * GRID_Z ELSE 0

\* C16: for chunk (cx, cy) build_initial_nodes returns exactly: if cx > 0,
\* for every (y, z) in that order, cell (0, y, z) pinned to the value of chunk
\* (cx - 1, cy) at (GRID_X - 1, y, z); then, if cy > 0, for every (x, z) with
\* x from (1 if cx > 0 else 0), cell (x, 0, z) pinned to the value of chunk
\* (cx, cy - 1) at (x, GRID_Y - 1, z).  The origin chunk gets the empty
\* list.  The call changes neither the store nor the counter.
C16_SeamSeederResult ==
    /\ []( SeedListInUse =>
              /\ Len(initial_nodes) = LeftCount + BottomCount
              /\ cx > 0 =>
                    \A y \in 0 .. GRID_Y - 1, z \in 0 .. GRID_Z - 1 :
                        initial_nodes[y * GRID_Z + z + 1] =
                            << << 0, y, z >>,
                               CellOf(<<cx - 1, cy>>, GRID_X - 1, y, z) >>
              /\ cy > 0 =>
                    \A x \in StartX .. GRID_X - 1, z \in 0 .. GRID_Z - 1 :
                        initial_nodes[LeftCount + (x - StartX) * GRID_Z + z + 1] =
                            << << x, 0, z >>,
                               CellOf(<<cx, cy - 1>>, x, GRID_Y - 1, z) >>
              /\ (cx = 0 /\ cy = 0) => initial_nodes = << >> )
    /\ [][ pc = "seed" =>
               generated_chunks' = generated_chunks /\ progress' = progress ]_vars

\* The seed list of a doubly-seeded chunk has just been built.
C16_Witness ==
    /\ pc = "full"
    /\ requests = << >>
    /\ cx > 0 /\ cy > 0
    /\ Len(initial_nodes) = GRID_Y * GRID_Z + (GRID_X - 1) * GRID_Z

\* Positions of the seed list that pin the given cell.
PinsOf(cell) ==
    { i \in 1 .. Len(initial_nodes) : initial_nodes[i][1] = cell }

\* C17: in every seed list of build_initial_nodes the pinned cells are
\* pairwise distinct and in bounds; for a doubly-seeded chunk the corner
\* cell (0, 0, z) appears exactly once, among the left entries, pinned to
\* the left neighbour's value at (GRID_X - 1, 0, z), hence not to the bottom
\* neighbour's value at (0, GRID_Y - 1, z) where the two differ.
C17_CornerSeededOnce ==
    SeedListInUse =>
        /\ Cardinality(PinnedCells(initial_nodes)) = Len(initial_nodes)
        /\ PinnedCells(initial_nodes) \subseteq
               (0 .. GRID_X - 1) \X (0 .. GRID_Y - 1) \X (0 .. GRID_Z - 1)
        /\ (cx > 0 /\ cy > 0) =>
               \A z \in 0 .. GRID_Z - 1 :
                   LET left   == CellOf(<<cx - 1, cy>>, GRID_X - 1, 0, z)
                       bottom == CellOf(<<cx, cy - 1>>, 0, GRID_Y - 1, z)
                   IN  /\ Cardinality(PinsOf(<<0, 0, z>>)) = 1
                       /\ \A i \in PinsOf(<<0, 0, z>>) :
                              /\ i <= LeftCount
                              /\ initial_nodes[i][2] = left
                              /\ left # bottom => initial_nodes[i][2] # bottom

\* The seed list of a doubly-seeded chunk, with the corner cell of every
\* layer pinned by one of the left entries.
C17_Witness ==
    /\ pc = "full"
    /\ cx > 0 /\ cy > 0
    /\ \A z \in 0 .. GRID_Z - 1 :
           \E i \in 1 .. LeftCount : initial_nodes[i][1] = << 0, 0, z >>

\* Number of times the traced call asked the engine for the given operation.
TimesCalled(op) == Len(SelectSeq(engine.calls, LAMBDA c : c = op))

\* C18: one call of try_generate_chunk makes at most one generation request
\* (and at most one call of each engine operation); it returns None, without
\* panicking and without a further request, when the engine rejects the
\* pinned cells, when the generator cannot be built, or when the generation
\* fails; it returns Some(grid) only when the generation succeeded.
C18_AdapterNoRetry ==
    pc = "returned" =>
        LET e == engine.answers
        IN  /\ Len(requests) = 1
            /\ TimesCalled("with_initial_nodes") <= 1
            /\ TimesCalled("build") <= 1
            /\ TimesCalled("generate_grid") <= 1
            /\ TimesCalled("with_initial_nodes") = 1 <=> initial_nodes # << >>
            /\ (initial_nodes # << >> /\ ~ e.accepts) =>
                   /\ data = None
                   /\ engine.calls = << "with_initial_nodes" >>
            /\ ~ e.builds =>
                   /\ data = None
                   /\ TimesCalled("generate_grid") = 0
            /\ ~ e.generates => data = None
            /\ data # None =>
                   /\ e.builds /\ e.generates
                   /\ initial_nodes # << >> => e.accepts
                   /\ TimesCalled("generate_grid") = 1
                   /\ DOMAIN data = Indices
            /\ LastRequest.ok <=> data # None
            /\ LastRequest.out = data

\* The pinned cells were accepted and the generator was built, the one
\* generation request failed and the call returned None.
C18_Witness ==
    /\ pc = "returned"
    /\ data = None
    /\ engine.calls = << "with_initial_nodes", "build", "generate_grid" >>

\* A poll would not obtain the worker's result: the task resource or the
\* spawn resources are absent, or the worker has not returned.
NotReady == ~ task \/ spawn_resources = << >> \/ ~ ResultReady

\* What poll_map_generation may change when it finds the result.
HandOverState ==
    << task, spawn_resources, progress_resource, map_ready, tiles, spawned >>

\* C19: a call of poll_map_generation made while the worker has not yet
\* produced its result leaves the task, the spawn resources, the progress
\* resource, the ready marker and the spawned tiles unchanged, and so does a
\* call made when the task resource or the spawn resources are absent; the
\* poll of a running worker returns having found the task pending, the poll
\* without the resources returns having found them absent, neither touches
\* the worker, and the poll can run whatever the worker is doing.
C19_PollNotReadyFrame ==
    /\ [][ NotReady => UNCHANGED HandOverState ]_vars
    /\ [][ (NotReady /\ outcome' # outcome) =>
               /\ UNCHANGED worker_vars
               /\ (task /\ spawn_resources # << >> /\ ~ Terminal) =>
                      outcome' = "pending"
               /\ (~ task \/ spawn_resources = << >>) => outcome' = "absent" ]_vars
    /\ [](outcome # "poll_panicked" => ENABLED poll_map_generation)

\* A poll found the task pending while the worker was in the ladder, and
\* everything is as setup_generator left it.
C19_Witness ==
    /\ outcome = "pending"
    /\ pc = "relax"
    /\ task /\ spawn_resources # << >> /\ progress_resource
    /\ ~ map_ready
    /\ tiles = << >>

\* C20: the worker's result is taken by poll_map_generation at most once;
\* in the step that takes it every chunk is passed to spawn_chunk_tiles
\* exactly once (no cell of a chunk is spawned twice), the task, the spawn
\* resources and the progress resource are removed and MapReady is inserted;
\* every later poll finds no task and does nothing.
C20_ResultTakenOnce ==
    /\ [](spawned = << >> \/ spawned = RowMajor)
    /\ [](task <=> spawned = << >>)
    /\ [](task => /\ spawn_resources # << >>
                  /\ progress_resource
                  /\ ~ map_ready
                  /\ tiles = << >>)
    /\ [](~ task => /\ spawn_resources = << >>
                    /\ ~ progress_resource
                    /\ outcome \in { "ready", "absent" })
    /\ [](Cardinality({ << tiles[i].chunk, tiles[i].pos >> : i \in 1 .. Len(tiles) })
            = Len(tiles))
    /\ [][ TakesResult =>
               /\ ResultReady
               /\ spawned = << >>
               /\ spawned' = [ i \in 1 .. Len(results) |->
                                 << results[i].chunk_x, results[i].chunk_y >> ]
               /\ spawn_resources' = << >>
               /\ ~ progress_resource'
               /\ map_ready'
               /\ outcome' = "ready" ]_vars
    /\ [][ (spawned' # spawned \/ tiles' # tiles \/ map_ready' # map_ready) =>
               TakesResult ]_vars
    /\ [][ ~ task =>
               /\ UNCHANGED HandOverState
               /\ UNCHANGED worker_vars
               /\ outcome' = "absent" ]_vars

\* The result was taken, every chunk spawned once, and a later poll found no
\* task.
C20_Witness ==
    /\ outcome = "absent"
    /\ ~ task
    /\ map_ready
    /\ spawned = RowMajor
    /\ tiles # << >>

\* C21 (as claimed): in every reachable state, the states after an abort of
\* the worker included, each call of poll_map_generation observes "not ready"
\* or "ready"; there is no third outcome.
C21_TwoOutcomesOnly ==
    outcome \in { "none", "pending", "absent", "ready" }

\* C21 (amended): a call of poll_map_generation that returns has observed
\* "not ready", and changed nothing, or "ready", and taken the complete
\* result: one ChunkResult per chunk, in row-major order.  No call observes
\* a partial or cancelled result.  Only after an abort of the worker can a
\* call fail to return, the worker's panic resurfacing in the polling thread;
\* nothing is handed over then and no later poll runs.
C21_TwoOutcomesUnlessPanic ==
    /\ [](outcome \in { "none", "pending", "absent", "ready", "poll_panicked" })
    /\ [](outcome = "poll_panicked" => Panicked /\ NothingHandedOver)
    /\ [][ outcome' \in { "pending", "absent" } => UNCHANGED HandOverState ]_vars
    /\ [][ (outcome' = "ready" /\ outcome # "ready") =>
               /\ pc = "done"
               /\ Len(results) = total
               /\ spawned' = RowMajor
               /\ \A i \in 1 .. total :
                      results[i].grid_data \in [ Indices -> Models ] ]_vars
    /\ [][ outcome = "poll_panicked" => UNCHANGED main_vars ]_vars

\* The worker aborted on a chunk without both neighbours and a later poll
\* returned "not ready".
C21_Witness ==
    /\ pc = "panic_non_corner"
    /\ outcome = "pending"
    /\ task

GlobalPos(c, pos) ==
    << c[1] * (GRID_X - 1) + pos[1], c[2] * (GRID_Y - 1) + pos[2], pos[3] >>

\* The chunk the claim names as the emitter of cell pos of chunk c, and the
\* position the cell has there: a cell of the right column belongs to the
\* right neighbour, a cell of the top row to the upper neighbour, if any.
EmitterOf(c, pos) ==
    LET right == pos[1] = GRID_X - 1 /\ c[1] < CHUNKS_X - 1
        up    == pos[2] = GRID_Y - 1 /\ c[2] < CHUNKS_Y - 1
    IN  [ chunk |-> << IF right THEN c[1] + 1 ELSE c[1],
                       IF up THEN c[2] + 1 ELSE c[2] >>,
          pos   |-> << IF right THEN 0 ELSE pos[1],
                       IF up THEN 0 ELSE pos[2],
                       pos[3] >> ]

\* The cells that are their own emitter: every cell but the right column of
\* a chunk with a right neighbour and the top row of one with an upper one.
OwnCells ==
    { cell \in Chunks \X Indices :
        EmitterOf(cell[1], pos_from_index(cell[2])) =
            [ chunk |-> cell[1], pos |-> pos_from_index(cell[2]) ] }

C24_CompleteOrderedResult ==
    /\ [](pc # "panic_unwrap")
    /\ [](pc # "done" => results = << >>)
    /\ [](pc = "done" =>
            /\ Len(results) = CHUNKS_X * CHUNKS_Y
            /\ \A i \in 1 .. Len(results) :
                   /\ results[i].chunk_x = (i - 1) % CHUNKS_X
                   /\ results[i].chunk_y = (i - 1) \div CHUNKS_X
            /\ \A c \in Chunks : \E i \in 1 .. Len(results) :
                   << results[i].chunk_x, results[i].chunk_y >> = c
            /\ generated_chunks = << >>)
    /\ [][ pc' = "done" /\ pc # "done" =>
             /\ pc = "assemble"
             /\ DOMAIN generated_chunks = Chunks
             /\ \A i \in 1 .. Len(results') :
                    results'[i].grid_data =
                        generated_chunks[<< results'[i].chunk_x,
                                            results'[i].chunk_y >>] ]_vars
    /\ [][ pc = "done" => UNCHANGED << results, generated_chunks >> ]_vars

\* The run completed: the second result is chunk (1, 0), the last one the
\* last chunk, and the store is empty.
C24_Witness ==
    /\ pc = "done"
    /\ Len(results) = CHUNKS_X * CHUNKS_Y
    /\ << results[2].chunk_x, results[2].chunk_y >> = << 1, 0 >>
    /\ << results[Len(results)].chunk_x, results[Len(results)].chunk_y >> = LastChunk
    /\ generated_chunks = << >>

\* World offset the result list gives to chunk c, in half tiles.
OffsetOf(c) == results[Rank(c) + 1].chunk_offset

\* World x of the columns, and world y of the rows, of a chunk at offset o.
ColumnsAt(o) == { world_pos(o, << x, 0, 0 >>)[1] : x \in 0 .. GRID_X - 1 }
RowsAt(o) == { world_pos(o, << 0, y, 0 >>)[2] : y \in 0 .. GRID_Y - 1 }

\* C25: in the result of a completed run the world offsets of horizontally
\* adjacent chunks differ by exactly GRID_X - 1 tiles in x and 0 in y, those
\* of vertically adjacent chunks by exactly GRID_Y - 1 tiles in y and 0 in x;
\* cell (GRID_X - 1, y, z) of a chunk and cell (0, y, z) of its right
\* neighbour have the same world position, likewise the top row and the
\* bottom row of the upper neighbour; and the columns (rows) of two adjacent
\* chunks cover 2 * GRID_X - 1 (2 * GRID_Y - 1) consecutive tiles, without a
\* gap.
C25_EdgeToEdgeOffsets ==
    pc = "done" =>
        \A c \in Chunks :
            LET o == OffsetOf(c)
            IN  /\ c[1] < CHUNKS_X - 1 =>
                       LET r == OffsetOf(<< c[1] + 1, c[2] >>)
                       IN  /\ r[1] - o[1] = 2 * (GRID_X - 1)
                           /\ r[2] = o[2]
                           /\ \A y \in 0 .. GRID_Y - 1 :
                                  world_pos(o, << GRID_X - 1, y, 0 >>)
                                      = world_pos(r, << 0, y, 0 >>)
                           /\ ColumnsAt(o) \cup ColumnsAt(r) =
                                  { o[1] + 1 + 2 * k : k \in 0 .. 2 * (GRID_X - 1) }
                /\ c[2] < CHUNKS_Y - 1 =>
                       LET u == OffsetOf(<< c[1], c[2] + 1 >>)
                       IN  /\ u[2] - o[2] = 2 * (GRID_Y - 1)
                           /\ u[1] = o[1]
                           /\ \A x \in 0 .. GRID_X - 1 :
                                  world_pos(o, << x, GRID_Y - 1, 0 >>)
                                      = world_pos(u, << x, 0, 0 >>)
                           /\ RowsAt(o) \cup RowsAt(u) =
                                  { o[2] + 1 + 2 * k : k \in 0 .. 2 * (GRID_Y - 1) }

\* The run completed and the result list places chunk (1, 0) to the right of
\* chunk (0, 0) and chunk (0, 1) above it.
C25_Witness ==
    /\ pc = "done"
    /\ OffsetOf(<< 1, 0 >>)[1] > OffsetOf(<< 0, 0 >>)[1]
    /\ OffsetOf(<< 0, 1 >>)[2] > OffsetOf(<< 0, 0 >>)[2]

\* Global row and depth adjustment of every tile of ts.
DepthByRow(ts) == { << ts[i].global[2], ts[i].depth >> : i \in 1 .. Len(ts) }

\* C26: the depth adjustment of every spawned cell is a function of its
\* global row chunk_y * (GRID_Y - 1) + y alone: cells of different chunks in
\* the same global row get the same adjustment, a seam row gets the same
\* adjustment whether taken as the top row of the lower chunk or as the
\* bottom row of the upper one, and the adjustment strictly decreases as the
\* global row increases across the stitched world.
C26_DepthFromGlobalRow ==
    [][ TakesResult =>
          /\ \A a, b \in DepthByRow(tiles') :
                /\ a[1] = b[1] => a[2] = b[2]
                /\ a[1] < b[1] => a[2] > b[2]
          /\ { a[1] : a \in DepthByRow(tiles') } = 0 .. TOTAL_GRID_Y - 1
              \/ spawn_resources[1].assets # Models
          /\ \A c \in Chunks : c[2] < CHUNKS_Y - 1 =>
                \A x \in 0 .. GRID_X - 1, z \in 0 .. GRID_Z - 1 :
                    depth_adjust(c[2], << x, GRID_Y - 1, z >>)
                        = depth_adjust(c[2] + 1, << x, 0, z >>) ]_vars

\* The result was taken and tiles of chunk (0, 1) and of chunk (1, 0) were
\* spawned: rows of the upper chunks lie behind those of the lower ones.
C26_Witness ==
    /\ ~ task
    /\ \E i, j \in 1 .. Len(tiles) :
           /\ tiles[i].chunk = << 0, 1 >>
           /\ tiles[j].chunk = << 1, 0 >>
           /\ tiles[i].depth < tiles[j].depth

\* The chunks of which an attempt was made and that are not solved yet.
InGeneration == { c \in Chunks : attempts[c] > 0 /\ c \notin SolvedChunks }

\* C27: in every interleaving of the worker with the frames of the main
\* loop, the store changes only in steps of the worker (its insert and its
\* final drain), at most one chunk is being generated at any time, the
\* counter is written by the worker's fetch_add alone, a step of the main
\* loop changes nothing of the worker, the loading text shows nothing of the
\* generation but the counter, and tiles come from the final result alone,
\* which is taken once.
C27_SingleWriterStore ==
    /\ [][ generated_chunks' # generated_chunks =>
               /\ pc \in { "insert", "assemble" }
               /\ UNCHANGED main_vars ]_vars
    /\ [][ progress' # progress =>
               /\ pc = "count"
               /\ UNCHANGED main_vars ]_vars
    /\ [][ main_vars' # main_vars => UNCHANGED worker_vars ]_vars
    /\ [](/\ Cardinality(InGeneration) <= 1
          /\ InGeneration \subseteq { << cx, cy >> }
          /\ \A i \in 1 .. Len(requests) : requests[i].chunk = requests[1].chunk)
    /\ [][ loading_text' # loading_text =>
               loading_text' \in
                   { "Starting...", "Loading",
                     "Generating world: " \o ToString(progress) \o "/"
                         \o ToString(total) } ]_vars
    /\ [][ tiles' # tiles =>
               /\ TakesResult
               /\ tiles' = SpawnChunks(results, spawn_resources[1].assets) ]_vars
    /\ [](Len(spawned) <= total)

\* The loading screen shows the counter at 1 while the worker has already
\* stored the second chunk and not yet counted it.
C27_Witness ==
    /\ loading_text = "Generating world: " \o ToString(1) \o "/" \o ToString(total)
    /\ Cardinality(DOMAIN generated_chunks) = 2
    /\ pc = "count"

\* C28: with a rule set of a single self-compatible model, for which the
\* oracle never fails, the run completes (no abort, every state short of
\* completion has a next step and every step lowers the bound on the steps
\* left); exactly one oracle attempt is made per chunk and none of them is
\* relaxed; progress reaches total; every chunk grid is uniform; and both
\* seam invariants hold for every pair of adjacent chunks.
C28_UniformRunSucceeds ==
    /\ [](rules = "uniform" =>
            /\ ~ Panicked
            /\ pc = "done" \/ CanStep
            /\ radius = 0
            /\ warned = << >>
            /\ \A c \in Chunks : attempts[c] <= 1
            /\ \A i \in 1 .. Len(requests) :
                   /\ requests[i].ok
                   /\ requests[i].radius = 0)
    /\ [][ rules = "uniform" => StepsLeft' < StepsLeft ]_vars
    /\ [](rules = "uniform" /\ pc = "done" =>
            /\ progress = total
            /\ Len(results) = total
            /\ \A c \in Chunks :
                   /\ attempts[c] = 1
                   /\ \A i \in Indices : Solved(c)[i] = Solved(c)[0]
                   /\ c[1] > 0 =>
                          \A y \in 0 .. GRID_Y - 1, z \in 0 .. GRID_Z - 1 :
                              CellOf(c, 0, y, z)
                                  = CellOf(<< c[1] - 1, c[2] >>, GRID_X - 1, y, z)
                   /\ c[2] > 0 =>
                          \A x \in 0 .. GRID_X - 1, z \in 0 .. GRID_Z - 1 :
                              CellOf(c, x, 0, z)
                                  = CellOf(<< c[1], c[2] - 1 >>, x, GRID_Y - 1, z))

\* The run under the uniform rule set completed: four of four chunks.
C28_Witness ==
    /\ rules = "uniform"
    /\ pc = "done"
    /\ progress = total
    /\ \A c \in Chunks : attempts[c] = 1

\* Cell index of a seed entry.
SeedIndex(node) == index_from_coords(node[1][1], node[1][2], node[1][3])

\* The cells of the L-region of radius r, by position.
InLRegion(pos, r) ==
    \/ pos[1] = 0 /\ pos[2] < r
    \/ pos[2] = 0 /\ pos[1] > 0 /\ pos[1] <= r

\* The border zones of request q follow its seed list.
FlagsFollowSeeds(q) ==
    LET flags == { q.border_zones[k] : k \in 1 .. Len(q.border_zones) }
        cells == { SeedIndex(q.nodes[j]) : j \in 1 .. Len(q.nodes) }
    IN  /\ Len(q.border_zones) = 6 * Len(q.nodes)
        /\ \A j \in 1 .. Len(q.nodes), d \in 0 .. 5 :
               q.border_zones[6 * (j - 1) + d + 1] = << SeedIndex(q.nodes[j]), d >>
        /\ flags = cells \X (0 .. 5)
        /\ q.radius > 0 =>
               \A f \in flags : ~ InLRegion(pos_from_index(f[1]), q.radius)
        /\ q.nodes = << >> => q.border_zones = << >>

\* C29: in every oracle attempt the six face directions are flagged as
\* externally constrained for exactly the cells of the seed list passed to
\* that attempt, six flags per seed entry, and for no other cell; in a
\* relaxed attempt at radius r no cell of the L-region carries a flag; an
\* attempt with an empty seed list passes no flag and no pinned cell, and
\* only chunk (0, 0) makes such an attempt with its full seed set.
C29_BorderFlagsFollowSeeds ==
    /\ [][ requests' # requests /\ requests' # << >> =>
               LET q == requests'[Len(requests')]
               IN  /\ FlagsFollowSeeds(q)
                   /\ q.nodes = IF q.radius = 0 THEN initial_nodes
                                ELSE reduced(initial_nodes, q.radius)
                   /\ q.radius = 0 =>
                          (q.nodes = << >> <=> q.chunk = << 0, 0 >>) ]_vars

\* A relaxed attempt at radius 1 was made with a seed list shorter than the
\* full one, and it passed border flags.
C29_Witness ==
    /\ pc = "relax"
    /\ requests # << >>
    /\ LastRequest.radius = 1
    /\ Len(LastRequest.nodes) < Len(initial_nodes)
    /\ LastRequest.border_zones # << >>

\* C30: once the worker has returned its result, with the game in the
\* Loading state and the generation resources in place, the poll can run,
\* the first poll that runs takes the result and inserts MapReady, which
\* stays; no poll made after the worker returned finds the task pending.
C30_HandOffOnNextPoll ==
    /\ [](pc = "done" /\ task =>
            /\ state = "Loading"
            /\ spawn_resources # << >>
            /\ ENABLED poll_map_generation)
    /\ [][ (pc = "done" /\ task /\ UNCHANGED worker_vars) =>
               /\ TakesResult
               /\ map_ready'
               /\ outcome' = "ready" ]_vars
    /\ [][ (outcome' = "pending" /\ UNCHANGED worker_vars) => pc # "done" ]_vars
    /\ [](pc = "done" /\ ~ task => map_ready)
    /\ [][ map_ready => map_ready' ]_vars

\* The worker returned while earlier polls had found the task pending, and
\* the next poll took the result.
C30_Witness ==
    /\ pc = "done"
    /\ outcome = "ready"
    /\ map_ready
    /\ ~ task
    /\ progress = total

\* ------------------------------------------------------------ scheduling
\* The worker runs on the task pool until generate_all_chunks returns or
\* panics; the Update schedule runs the poll and check_assets_loaded in
\* every frame spent in Loading, and the character assets load: a frame in
\* which check_assets_loaded finds them and MapReady sets Playing.
GameFairSpec ==
    /\ GameSpec
    /\ WF_vars(Next)
    /\ WF_vars(state = "Loading" /\ poll_map_generation)
    /\ WF_vars(check_assets_loaded /\ state' = "Playing")

\* C31: whenever the game is in the Loading state (entered by New Game or
\* by a restart from GameOver), then, unless the worker aborts, the game
\* eventually reaches Playing.
C31_LoadingEventuallyLeft ==
    (state = "Loading") ~> (state = "Playing" \/ Panicked)

\* C32: for every solved chunk with cx > 0 and cy > 0 whose grid was produced
\* by the relaxed attempt at radius r >= 1, cell (0, y, z) equals the left
\* neighbour's cell (GRID_X - 1, y, z) for all y >= r, and cell (x, 0, z)
\* equals the bottom neighbour's cell (x, GRID_Y - 1, z) for all x > r.
C32_SeamOutsideLRegion ==
    \A c \in SolvedChunks :
        (c[1] > 0 /\ c[2] > 0 /\ Rung(c) >= 1) =>
            LET r      == Rung(c)
                left   == << c[1] - 1, c[2] >>
                bottom == << c[1], c[2] - 1 >>
            IN  \A z \in 0 .. GRID_Z - 1 :
                    /\ \A y \in r .. GRID_Y - 1 :
                           CellOf(c, 0, y, z) = CellOf(left, GRID_X - 1, y, z)
                    /\ \A x \in r + 1 .. GRID_X - 1 :
                           CellOf(c, x, 0, z) = CellOf(bottom, x, GRID_Y - 1, z)

\* A doubly-seeded chunk was produced at a radius that leaves seed cells on
\* both arms, and the solver's own choice for one of them differs from the
\* neighbour's value: the cell agrees with the neighbour because it is pinned.
C32_Witness ==
    \E c \in SolvedChunks :
        /\ c[1] > 0 /\ c[2] > 0
        /\ Rung(c) >= 1 /\ Rung(c) < GRID_Y /\ Rung(c) < GRID_X - 1
        /\ requests # << >> /\ LastRequest.chunk = c /\ LastRequest.ok
        /\ \E y \in Rung(c) .. GRID_Y - 1, z \in 0 .. GRID_Z - 1 :
               Pattern((rng + Cardinality(RngSeeds) - 1) % Cardinality(RngSeeds),
                       << 0, y, z >>) # CellOf(c, 0, y, z)

\* The worker is in the generation loop of lines 151-171, or has aborted in
\* it, or has left it and not yet begun to drain the store.
InGenerationLoop ==
    pc \in { "seed", "full", "relax", "insert", "count", "assemble",
             "panic_index", "panic_non_corner", "panic_corner" }

\* The first k coordinates of the row-major order.
Prefix(k) == { RowMajor[i] : i \in 1 .. k }

\* C33: in every state of the generation loop, the aborted ones included,
\* the coordinates in the solved-grid store are exactly the first k of the
\* row-major order, k being the number of the chunk the loop is at (one more
\* once that chunk is inserted, total after the loop); after an abort on chunk
\* number k the store holds exactly the k chunks before it.
C33_StoreIsRowMajorPrefix ==
    InGenerationLoop =>
        LET at == Rank(<< cx, cy >>)
            k  == IF pc = "count" THEN at + 1 ELSE at
        IN  /\ k \in 0 .. CHUNKS_X * CHUNKS_Y
            /\ pc = "assemble" => k = CHUNKS_X * CHUNKS_Y
            /\ DOMAIN generated_chunks = Prefix(k)
            /\ Panicked =>
                   DOMAIN generated_chunks =
                       { c \in Chunks : Rank(c) < Rank(<< cx, cy >>) }

\* The worker aborted on the last chunk: the store holds every chunk but it.
C33_Witness ==
    /\ pc = "panic_corner"
    /\ Rank(<< cx, cy >>) = CHUNKS_X * CHUNKS_Y - 1
    /\ DOMAIN generated_chunks = Chunks \ { << cx, cy >> }
    /\ generated_chunks # << >>

\* The text animate_loading formats from a counter value n.
ProgressText(n) ==
    "Generating world: " \o ToString(n) \o "/" \o ToString(CHUNKS_X * CHUNKS_Y)

\* A frame in which animate_loading reads the counter.
ReadsCounter == animate_loading /\ ~ map_ready /\ progress_resource

\* C34: during the generation loop, whatever the main loop does in between,
\* progress <= number of chunks in the store <= progress + 1; the value
\* animate_loading reads is the counter, which at that moment is at most
\* the number of chunks solved and at least that number minus one; and the
\* value on the loading screen never exceeds the number of chunks solved.
C34_ProgressNeverOverReports ==
    /\ [](InGenerationLoop =>
            /\ progress <= Cardinality(DOMAIN generated_chunks)
            /\ Cardinality(DOMAIN generated_chunks) <= progress + 1)
    /\ [][ ReadsCounter =>
               /\ loading_text' = ProgressText(progress)
               /\ progress <= Cardinality(SolvedChunks)
               /\ Cardinality(SolvedChunks) <= progress + 1 ]_vars
    /\ [](\A n \in 0 .. CHUNKS_X * CHUNKS_Y :
              loading_text = ProgressText(n) => n <= Cardinality(SolvedChunks))

\* The last chunk is in the store and not yet counted, and the loading
\* screen shows the counter, one short of the chunks solved.
C34_Witness ==
    /\ pc = "count"
    /\ Cardinality(DOMAIN generated_chunks) = CHUNKS_X * CHUNKS_Y
    /\ progress = CHUNKS_X * CHUNKS_Y - 1
    /\ loading_text = ProgressText(progress)

\* Every position of the stitched world.
WorldBox ==
    (0 .. CHUNKS_X * (GRID_X - 1)) \X (0 .. CHUNKS_Y * (GRID_Y - 1))
        \X (0 .. GRID_Z - 1)

\* Every model of every grid of the result has assets in the spawner.
EveryModelHasAssets ==
    \A i \in 1 .. Len(results), n \in Indices :
        results[i].grid_data[n] \in spawn_resources[1].assets

\* C35: when every solved model has assets, the global positions of the
\* tiles spawned from the result of a completed run are exactly the
\* positions of the stitched world, each of them once.
C35_AssemblyCoversWorld ==
    [][ (TakesResult /\ EveryModelHasAssets) =>
          /\ { tiles'[i].global : i \in 1 .. Len(tiles') } = WorldBox
          /\ Len(tiles') = Cardinality(WorldBox) ]_vars

\* The whole world was spawned; the position shared by four chunks came
\* from the upper right one of them, the far corner of the world from the
\* last chunk.
C35_Witness ==
    /\ map_ready
    /\ Len(tiles) = Cardinality(WorldBox)
    /\ \E i, j \in 1 .. Len(tiles) :
           /\ tiles[i].global = << GRID_X - 1, GRID_Y - 1, 0 >>
           /\ tiles[i].chunk = << 1, 1 >>
           /\ tiles[j].global = << CHUNKS_X * (GRID_X - 1),
                                   CHUNKS_Y * (GRID_Y - 1), GRID_Z - 1 >>
           /\ tiles[j].chunk = << CHUNKS_X - 1, CHUNKS_Y - 1 >>

\* The entries (cell, value) of a seed list.
Entries(nodes) == { nodes[j] : j \in 1 .. Len(nodes) }

Smaller(a, b) == IF a < b THEN a ELSE b

\* The cells the claim says radius r unpins: column x = 0 with y below
\* min(r, GRID_Y) and row y = 0 with x in 1 .. min(r, GRID_X - 1), every z.
UnpinnedAt(r) ==
    { << 0, y, z >> : y \in 0 .. Smaller(r, GRID_Y) - 1, z \in 0 .. GRID_Z - 1 }
    \cup
    { << x, 0, z >> : x \in 1 .. Smaller(r, GRID_X - 1), z \in 0 .. GRID_Z - 1 }

\* C36: for the seed list of a doubly-seeded chunk and all radii
\* 1 <= r < r' <= MAX_UNPIN_RADIUS, the entries of reduced(r') are among
\* those of reduced(r), which are a proper part of the full seed set; the
\* entries reduced(r) drops are exactly those of the cells of column x = 0
\* with y < min(r, GRID_Y) and of row y = 0 with 1 <= x <= min(r, GRID_X - 1),
\* for every z; and every entry of every relaxed attempt made is an entry
\* of the full seed set.
C36_RelaxationMonotone ==
    (is_corner /\ pc \in { "full", "relax" }) =>
        LET full   == Entries(initial_nodes)
            red(r) == Entries(reduced(initial_nodes, r))
        IN  /\ \A r \in 1 .. MAX_UNPIN_RADIUS :
                   /\ red(r) \subseteq full
                   /\ red(r) # full
                   /\ { e[1] : e \in full \ red(r) } = UnpinnedAt(r)
                   /\ \A e \in red(r) : e[1] \notin UnpinnedAt(r)
                   /\ Len(reduced(initial_nodes, r)) = Cardinality(red(r))
                   /\ \A q \in r + 1 .. MAX_UNPIN_RADIUS : red(q) \subseteq red(r)
            /\ \A i \in 1 .. Len(requests) :
                   /\ Entries(requests[i].nodes) \subseteq full
                   /\ requests[i].radius >= 1 =>
                          requests[i].nodes = reduced(initial_nodes, requests[i].radius)

\* Two relaxed attempts were made for a doubly-seeded chunk, the second with
\* fewer pins than the first, which had fewer than the full seed set.
C36_Witness ==
    /\ is_corner
    /\ pc = "relax"
    /\ Len(requests) >= 3
    /\ requests[2].nodes # << >>
    /\ Len(requests[3].nodes) < Len(requests[2].nodes)
    /\ Len(requests[2].nodes) < Len(requests[1].nodes)

====
